---- MODULE Spec2Model ----
(***************************************************************************)
(* A model of the rspamd client's HTTPCrypt layer                          *)
(* (src/src/protocol/encryption.rs) and of the request loop that uses it   *)
(* (src/src/backend/async_client.rs, src/src/backend/sync_client.rs).      *)
(*                                                                         *)
(* Cryptographic primitives of the external crates are modelled by their   *)
(* contracts:                                                              *)
(*   - the stream cipher is an XOR with a keystream that is a function of  *)
(*     (key, nonce, position);                                             *)
(*   - Poly1305 is an ideal MAC: a tag verifies for (key, nonce,           *)
(*     ciphertext) exactly when the keyed primitive issued that tag for    *)
(*     that triple (the set macs records what was issued);                 *)
(*   - OsRng yields values that were never drawn before.                   *)
(***************************************************************************)
EXTENDS Integers, Sequences, FiniteSets, Bags, TLC

VARIABLES
    codec,      \* the envelope codec harness: encrypt_inplace / httpcrypt_decrypt
    macs,       \* the (key, nonce, ciphertext, tag) quadruples Poly1305 has issued
    keyx,       \* the key harness: rspamd_x25519_scalarmult/_ecdh, make_key_header
    parser,     \* the response harness: the open+parse step of Request::response
    client,     \* one request: the locals of ReqwestRequest::response
    pool,       \* requests that run at the same time, and the OsRng they share
    vec,        \* the reference-vector harness: the key agreement, step by step
    env,        \* the envelope harness: EnvelopeData on its way to request headers
    scan        \* the scan harness: scan_sync and scan_async on the same input and reply

codecVars == <<codec, macs>>

keyVars == <<keyx>>

parseVars == <<parser>>

clientVars == <<client>>

poolVars == <<pool>>

vecVars == <<vec>>

envVars == <<env>>

scanVars == <<scan>>

vars == <<codec, macs, keyx, parser, client, pool, vec, env, scan>>

(***************************************************************************)
(* Bounds of the model.                                                    *)
(***************************************************************************)
\* longest plaintext handed to encrypt_inplace in the codec harness
MaxLen == 2
\* number of distinct shared secrets the codec harness draws from
NumKeys == 2
\* number of distinct nonces OsRng may produce in the codec harness
NumNonces == 2
\* number of distinct fillings of a remote key string in the key harness
NumKeyFills == 2
\* number of distinct local secret keys OsRng may produce in the key harness
NumSecretKeys == 2
\* longest body (in bytes) of a decrypted response in the response harness
MaxBody == 2
\* how many header lines more than the parser's capacity a response may carry
MaxOver == 2
\* largest value of Config::retries a request is made with
MaxRetries == 2
\* how many times a request is sent at most (a wrapped retry counter would
\* let the loop go on for 2^32 rounds)
MaxAttempts == 3
\* number of requests that run at the same time
NumTasks == 2
\* longest rcpt list of an EnvelopeData
MaxRcpt == 2
\* longest body of a reply to a scan, in units
MaxReply == 2

(***************************************************************************)
(* Program constants.                                                      *)
(***************************************************************************)
\* XChaCha20Poly1305::NONCE_SIZE
NONCE_SIZE == 24
\* XChaCha20Poly1305::TAG_SIZE
TAG_SIZE == 16
\* XChaCha20Poly1305::KEY_SIZE
KEY_SIZE == 32
\* It must be the same as Rspamd one, that is currently 5
SHORT_KEY_ID_SIZE == 5
\* [httparse::EMPTY_HEADER; 64]
HEADERS_CAP == 64

Byte == 0..255
\* the byte values plaintexts are built from
PlainBytes == {10, 255}

RECURSIVE XorN(_, _, _)
XorN(a, b, n) ==
    IF n = 0 THEN 0
    ELSE (((a % 2) + (b % 2)) % 2) + 2 * XorN(a \div 2, b \div 2, n - 1)

\* bitwise exclusive or of two bytes
Xor(a, b) == XorN(a, b, 8)

RECURSIVE Pow2(_)
Pow2(n) == IF n = 0 THEN 1 ELSE 2 * Pow2(n - 1)

RECURSIVE SumSeq(_)
SumSeq(s) == IF s = <<>> THEN 0 ELSE Head(s) + SumSeq(Tail(s))

\* s[from+1 ..] in Rust's 0-based slice notation s[from..]
SliceFrom(s, from) == SubSeq(s, from + 1, Len(s))

\* s[from .. to) in Rust's 0-based slice notation s[from..to]
Slice(s, from, to) == SubSeq(s, from + 1, to)

\* all sequences over S of length at most n
RECURSIVE SeqsUpTo(_, _)
SeqsUpTo(S, n) ==
    IF n = 0 THEN {<<>>}
    ELSE LET shorter == SeqsUpTo(S, n - 1)
         IN  shorter \cup {Append(s, x) : s \in shorter, x \in S}

(***************************************************************************)
(* Result<T, RspamdError>, and a panic (an abort that returns no value).   *)
(***************************************************************************)
Ok(v) == [kind |-> "ok", err |-> "", data |-> v]

Err(e) == [kind |-> "err", err |-> e, data |-> <<>>]

Panic(e) == [kind |-> "panic", err |-> e, data |-> <<>>]

NoResult == [kind |-> "none", err |-> "", data |-> <<>>]

(***************************************************************************)
(* The harnesses at rest: each specification drives one of them and leaves *)
(* the others as they are here.                                            *)
(***************************************************************************)
CodecIdle ==
    [pc |-> "idle", plain |-> <<>>, key |-> 0, sealed |-> <<>>,
     body |-> <<>>, flipped |-> FALSE, out |-> NoResult]

KeyIdle ==
    [pc |-> "idle", remote |-> <<>>, sk |-> <<>>, nm |-> NoResult, header |-> NoResult]

ParserIdle ==
    [pc |-> "idle", body |-> <<>>, offset |-> 0, out |-> NoResult]

\* Option<T>
None == [some |-> FALSE, v |-> <<>>]

Some(v) == [some |-> TRUE, v |-> v]

ClientIdle ==
    [pc |-> "idle",
     config |-> [retries |-> 1, zstd |-> FALSE, password |-> None,
                 encryption_key |-> None],
     envelope_data |-> [from |-> None, file_path |-> None],
     body |-> <<>>, extra_hdrs |-> <<>>, retry_cnt |-> 1, maybe_sk |-> None,
     drawn |-> 0, attempts |-> <<>>, response |-> [success |-> FALSE, body |-> <<>>],
     failed |-> "", opened_with |-> None, result |-> NoResult, live |-> {}]

PoolIdle == [drawn |-> 0, tasks |-> <<>>]

VecIdle == [pc |-> "idle"]

EnvIdle == [pc |-> "idle"]

ScanIdle == [pc |-> "idle"]

(***************************************************************************)
(* The primitives.                                                         *)
(***************************************************************************)
\* ChaChaBox::generate_nonce(&mut OsRng): the n-th value of the generator
NonceBytes(n) == [i \in 1..NONCE_SIZE |-> (n * 97 + i * 29 + 3) % 256]

\* the 16-byte strings a Poly1305 tag may take in the model
TagBytes(t) == [i \in 1..TAG_SIZE |-> (t * 59 + i * 17 + 1) % 256]

\* XChaCha20 keystream byte at position i (1-based) under (key, nonce)
KeyStream(key, nonce, i) == (key * 31 + SumSeq(nonce) * 7 + i * 13 + 5) % 256

\* apply the keystream to a buffer (encryption and decryption are the same XOR)
ApplyKeyStream(key, nonce, buf) ==
    LET start == KeyStream(key, nonce, 0)
    IN  [i \in 1..Len(buf) |-> Xor(buf[i], (start + i * 13) % 256)]

\* Poly1305 verification: the tag was issued for exactly this input
TagVerifies(key, nonce, ct, tag) ==
    [key |-> key, nonce |-> nonce, ct |-> ct, tag |-> tag] \in macs

\* the tags Poly1305 may return for (key, nonce, ct): a function of its input
IssuableTags(key, nonce, ct) ==
    LET prior == {m \in macs : m.key = key /\ m.nonce = nonce /\ m.ct = ct}
    IN  IF prior # {} THEN {m.tag : m \in prior}
        ELSE {TagBytes(t) : t \in 0..1}

(***************************************************************************)
(* encrypt_inplace (after the key agreement): dest = nonce || tag-room ||  *)
(* plaintext; the plaintext part is encrypted in place, then the detached  *)
(* tag is copied into the room left for it.                                *)
(***************************************************************************)
SealLayoutAppended(nonce, tag, ct) == nonce \o ct \o tag

SealLayout(nonce, tag, ct) == nonce \o tag \o ct

EncryptInplace(plaintext, key, nonce, tag) ==
    SealLayout(nonce, tag, ApplyKeyStream(key, nonce, plaintext))

(***************************************************************************)
(* httpcrypt_decrypt: nonce = body[0..24]; the secretbox opens             *)
(* body[24..], whose first TAG_SIZE bytes are the tag and whose rest is    *)
(* the ciphertext.  kind is "ok", "err" (an Err value) or "panic" (a       *)
(* slice index out of range).                                              *)
(***************************************************************************)
SecretboxDecryptUnverified(key, nonce, payload) ==
    IF Len(payload) < TAG_SIZE
    THEN Err("aead::Error")
    ELSE Ok(ApplyKeyStream(key, nonce, SliceFrom(payload, TAG_SIZE)))

SecretboxDecrypt(key, nonce, payload) ==
    IF Len(payload) < TAG_SIZE
    THEN Err("aead::Error")
    ELSE LET tag == Slice(payload, 0, TAG_SIZE)
             ct  == SliceFrom(payload, TAG_SIZE)
         IN  IF TagVerifies(key, nonce, ct, tag)
             THEN Ok(ApplyKeyStream(key, nonce, ct))
             ELSE Err("aead::Error")

\* .map_err(|_| RspamdError::EncryptionError("Cannot decrypt"))
MapDecryptErr(r) ==
    IF r.kind = "err" THEN Err("EncryptionError: Cannot decrypt") ELSE r

HttpcryptDecryptWholeBody(body, key) ==
    IF Len(body) < NONCE_SIZE
    THEN Panic("range end index out of range")
    ELSE MapDecryptErr(SecretboxDecrypt(key, Slice(body, 0, NONCE_SIZE), body))

HttpcryptDecrypt(body, key) ==
    IF Len(body) < NONCE_SIZE
    THEN Panic("range end index out of range")
    ELSE MapDecryptErr(SecretboxDecrypt(key, Slice(body, 0, NONCE_SIZE),
                                        SliceFrom(body, NONCE_SIZE)))

(***************************************************************************)
(* Strings of the key material are sequences of symbols: 0..31 is a symbol *)
(* of the rspamd base32 alphabet "ybndrfg8ejkmcpqxot1uwisza345h769" (its   *)
(* index), EqSign is '=', OtherChar is a character outside the alphabet.   *)
(***************************************************************************)
EqSign == 32

OtherChar == 33

Base32Alphabet == 0..31

\* "k4nz984k36xmcynm1hr9kdbn6jhcxf4ggbrb1quay7f88rpm9kay"
TestKey ==
    <<10, 26, 2, 23, 31, 7, 26, 10, 25, 30, 15, 11, 12, 0, 2, 11, 18, 28, 4, 31,
      10, 3, 1, 2, 30, 9, 28, 12, 15, 5, 26, 6, 6, 1, 4, 1, 18, 14, 19, 24, 0, 29,
      5, 7, 7, 4, 13, 11, 31, 10, 24, 0>>

\* bit k (1-based, least significant bit of each unit first) of a sequence of
\* units of the given width; 0 past the end
BitAt(units, width, k) ==
    IF k > width * Len(units) THEN 0
    ELSE (units[((k - 1) \div width) + 1] \div Pow2((k - 1) % width)) % 2

\* the unit of `width` bits that starts at bit `from` (1-based) of the stream
UnitAt(units, inWidth, from, width) ==
    LET RECURSIVE Acc(_)
        Acc(t) == IF t = width THEN 0
                  ELSE BitAt(units, inWidth, from + t) * Pow2(t) + Acc(t + 1)
    IN  Acc(0)

\* rspamd_base32::encode: 5 bits per symbol, low bits first, a last partial
\* group is emitted on its own
Base32Encode(bytes) ==
    [j \in 1..((8 * Len(bytes) + 4) \div 5) |-> UnitAt(bytes, 8, 5 * (j - 1) + 1, 5)]

\* the number of bytes the decoder emits for n symbols: one byte whenever 8
\* bits are pending before the next symbol, and a last byte for what is left
Base32DecodedLen(n) == IF n = 0 THEN 0 ELSE (5 * n + 3) \div 8

\* rspamd_base32::decode
Base32Decode(str) ==
    IF \E i \in 1..Len(str) : str[i] \notin Base32Alphabet
    THEN Err("DecodeError")
    ELSE Ok([j \in 1..Base32DecodedLen(Len(str)) |-> UnitAt(str, 5, 8 * (j - 1) + 1, 8)])

\* a sum that weighs every byte by its position: the stand-in input mixing of
\* the hash and curve primitives
RECURSIVE WSumFrom(_, _)
WSumFrom(s, i) == IF i > Len(s) THEN 0 ELSE (i * s[i] + WSumFrom(s, i + 1)) % 65521

WSum(s) == WSumFrom(s, 1)

\* blake2b_simd::blake2b: a 64-byte digest, a function of the input bytes
Blake2b(bytes) ==
    LET mixed == WSum(bytes) * 13 + Len(bytes) * 7
    IN  [i \in 1..64 |-> (mixed + i * 101 + 19) % 256]

\* SecretKey::generate(&mut OsRng): the r-th value of the generator
SecretKeyBytes(r) == [i \in 1..KEY_SIZE |-> (r * 83 + i * 41 + 7) % 256]

\* a clamping that clears the low bits and leaves the high bits alone
ClampIntegerLowOnly(sk) == [sk EXCEPT ![1] = sk[1] - (sk[1] % 8)]

\* curve25519_dalek::scalar::clamp_integer
ClampInteger(sk) ==
    [sk EXCEPT ![1] = sk[1] - (sk[1] % 8), ![32] = (sk[32] % 64) + 64]

\* the Montgomery scalar multiplication e * p: 32 bytes, a function of both
MontgomeryMul(e, point) ==
    LET mixed == WSum(e) * 3 + WSum(point) * 5
    IN  [i \in 1..KEY_SIZE |-> (mixed + i * 7 + 2) % 256]

\* X25519 base point
BasePoint == [i \in 1..KEY_SIZE |-> IF i = 1 THEN 9 ELSE 0]

\* local_sk.public_key()
PublicKey(sk) == MontgomeryMul(ClampInteger(sk), BasePoint)

\* chacha20::hchacha::<U10>(key, nonce): 32 bytes, a function of both
HChaCha(key, n0) ==
    LET mixed == WSum(key) * 11 + WSum(n0) * 3
    IN  [i \in 1..KEY_SIZE |-> (mixed + i * 23 + 1) % 256]

(***************************************************************************)
(* make_key_header                                                         *)
(***************************************************************************)
KeyIdWholeDigest(hash) == Base32Encode(hash)

\* encode(&hash.as_bytes()[0..SHORT_KEY_ID_SIZE])
KeyId(hash) == Base32Encode(Slice(hash, 0, SHORT_KEY_ID_SIZE))

MakeKeyHeader(remote_pk, local_pk) ==
    LET decoded == Base32Decode(remote_pk)
    IN  IF decoded.kind = "err"
        THEN Err("EncryptionError: Base32 decode failed")
        ELSE Ok(KeyId(Blake2b(decoded.data)) \o <<EqSign>> \o local_pk)

(***************************************************************************)
(* rspamd_x25519_scalarmult: decode the remote key (an invalid symbol is   *)
(* an Err), convert the bytes to [u8; 32] with try_into().unwrap() (any    *)
(* other length panics), multiply by the clamped local secret.             *)
(***************************************************************************)
RspamdX25519Scalarmult(remote_pk, local_sk) ==
    LET decoded == Base32Decode(remote_pk)
    IN  IF decoded.kind = "err"
        THEN Err("EncryptionError: Base32 decode failed")
        ELSE IF Len(decoded.data) # KEY_SIZE
        THEN Panic("unwrap on TryFromSliceError")
        ELSE Ok(MontgomeryMul(ClampInteger(local_sk), decoded.data))

\* rspamd_x25519_ecdh: hchacha over the point and a zeroed 16-byte nonce
RspamdX25519Ecdh(point) == HChaCha(point, [i \in 1..16 |-> 0])

\* the key agreement of encrypt_inplace: scalarmult, `?`, then ecdh
DeriveSharedSecret(remote_pk, local_sk) ==
    LET ec_point == RspamdX25519Scalarmult(remote_pk, local_sk)
    IN  IF ec_point.kind = "ok" THEN Ok(RspamdX25519Ecdh(ec_point.data)) ELSE ec_point

\* rspamd_base32::encode(local_pk.as_ref()) of httpcrypt_encrypt
PeerKey(local_sk) == Base32Encode(PublicKey(local_sk))

(***************************************************************************)
(* The key harness: a remote key string and a local secret key are drawn;  *)
(* the key agreement and make_key_header are applied to them.              *)
(***************************************************************************)
\* the lengths of the remote key strings tried (52 symbols hold 32 bytes)
KeyStringLens == {0, 1, 2, 8, 50, 51, 52, 53}

\* a string of len alphabet symbols
KeyFill(f, len) == [i \in 1..len |-> (f * 7 + i * 11 + 3) % 32]

\* the string with the character at pos replaced by one outside the alphabet
WithOtherChar(str, pos) ==
    IF pos \in 1..Len(str) THEN [str EXCEPT ![pos] = OtherChar] ELSE str

RemoteKeyStrings ==
    {TestKey} \cup
    UNION {{WithOtherChar(KeyFill(f, len), pos) : pos \in {0, 1, len}} :
                f \in 0..(NumKeyFills - 1), len \in KeyStringLens}

KeyInit ==
    /\ \E str \in RemoteKeyStrings, r \in 0..(NumSecretKeys - 1) :
          keyx = [KeyIdle EXCEPT !.pc = "start", !.remote = str,
                                 !.sk = SecretKeyBytes(r)]
    /\ codec = CodecIdle
    /\ macs = {}
    /\ parser = ParserIdle
    /\ client = ClientIdle
    /\ pool = PoolIdle
    /\ vec = VecIdle
    /\ env = EnvIdle
    /\ scan = ScanIdle

\* encrypt_inplace, lines 53-54
KeyDerive ==
    /\ keyx.pc = "start"
    /\ keyx.nm.kind = "none"
    /\ keyx' = [keyx EXCEPT !.nm = DeriveSharedSecret(keyx.remote, keyx.sk)]
    /\ UNCHANGED <<codecVars, parseVars, clientVars, poolVars, vecVars, envVars, scanVars>>

\* make_key_header on the remote key and the encoded local public key
KeyMakeHeader ==
    /\ keyx.pc = "start"
    /\ keyx.header.kind = "none"
    /\ keyx' = [keyx EXCEPT !.header = MakeKeyHeader(keyx.remote, PeerKey(keyx.sk))]
    /\ UNCHANGED <<codecVars, parseVars, clientVars, poolVars, vecVars, envVars, scanVars>>

KeyNext == KeyDerive \/ KeyMakeHeader

SpecKey == KeyInit /\ [][KeyNext]_vars

\* the number of '=' in a string
CountEq(str) == Cardinality({i \in 1..Len(str) : str[i] = EqSign})

(***************************************************************************)
(* C6. Remote-key validation: a remote key string with a symbol outside    *)
(* the base32 alphabet, or one that decodes to a length other than 32      *)
(* bytes, makes the key derivation return an error value (no panic); the   *)
(* derivation goes on to the scalar multiplication only with 32 bytes.     *)
(***************************************************************************)
C6_RemoteKeyValidation ==
    keyx.nm.kind # "none" =>
        LET badSymbol == \E i \in 1..Len(keyx.remote) :
                            keyx.remote[i] \notin Base32Alphabet
            badLength == Base32DecodedLen(Len(keyx.remote)) # 32
        IN  /\ (badSymbol \/ badLength) => keyx.nm.kind = "err"
            /\ keyx.nm.kind = "ok" => ~badSymbol /\ ~badLength

(***************************************************************************)
(* C7. Key header format: whenever make_key_header succeeds, its value     *)
(* has exactly one '='; before it stand the 8 symbols that encode the      *)
(* first 5 bytes of the BLAKE2b digest of the decoded remote key, after it *)
(* the 52 symbols that encode the 32-byte local public key.                *)
(***************************************************************************)
C7_KeyHeaderFormat ==
    keyx.header.kind = "ok" =>
        LET h == keyx.header.data
            digest == Blake2b(Base32Decode(keyx.remote).data)
        IN  /\ CountEq(h) = 1
            /\ Len(h) = 8 + 1 + 52
            /\ h[9] = EqSign
            /\ SubSeq(h, 1, 8) = Base32Encode(SubSeq(digest, 1, 5))
            /\ SubSeq(h, 10, Len(h)) = Base32Encode(PublicKey(keyx.sk))
            /\ Len(PublicKey(keyx.sk)) = 32

C7_Witness ==
    /\ keyx.header.kind = "ok"
    /\ keyx.remote = TestKey
    /\ Len(keyx.header.data) = 61

(***************************************************************************)
(* The decrypted response.  The buffer the client parses is a sequence of  *)
(* units: the raw bytes in front of the decrypted message, then the lines  *)
(* of the pseudo-HTTP message (a status line, header lines, the blank      *)
(* line), then the bytes of the body.  Offsets count units.  Header names  *)
(* and values are pairs <<text, index>>; names stand for their lower-case  *)
(* form, as HeaderName::from_str makes them.                               *)
(***************************************************************************)
NoText == <<"", 0>>

Unit(t, name, value) == [t |-> t, name |-> name, value |-> value]

RawByte == Unit("raw", NoText, NoText)

StatusLine == Unit("status", NoText, <<"HTTP/1.1 200 OK", 0>>)

HeaderLine(name, value) == Unit("header", name, value)

BlankLine == Unit("blank", NoText, NoText)

\* a header line whose end has not arrived: the name starts, the data ends
CutLine == Unit("cut", NoText, NoText)

\* a line that cannot start a header name
JunkLine == Unit("junk", NoText, NoText)

BodyByte(b) == Unit("body", NoText, b)

\* the first bytes of a zstd frame
ZstdMagic == BodyByte(<<"zstd-magic", 0>>)

\* a header value that is not UTF-8
NonUtf8 == <<"non-utf8", 0>>

CompressionName == <<"compression", 0>>

ZstdValue == <<"zstd", 0>>

\* zstd::encode_all
ZstdEncodeAll(bytes) == <<ZstdMagic>> \o bytes

\* zstd::decode_all: the frames of the input, decoded; no input, no output
ZstdDecodeAll(bytes) ==
    IF bytes = <<>> THEN Ok(<<>>)
    ELSE IF Head(bytes) = ZstdMagic THEN Ok(Tail(bytes))
    ELSE Err("IOError: Unknown frame descriptor")

\* Status::Complete(offset) and Status::Partial of httparse, with the headers
\* the parser stored
Complete(offset, headers) ==
    Ok([status |-> "Complete", offset |-> offset, headers |-> headers])

Partial == Ok([status |-> "Partial", offset |-> 0, headers |-> <<>>])

(***************************************************************************)
(* httparse::Response::parse with room for `cap` headers, on the units of  *)
(* buf.  Header i is read at buf[i]: no data left is Partial, the blank    *)
(* line ends the head, a byte that cannot start a name is an error, a      *)
(* header with no slot left is TooManyHeaders.                             *)
(***************************************************************************)
\* the first unit after the status line that is not a complete header line
\* (one past the end when there is none)
HeadStop(buf) ==
    CHOOSE i \in 2..(Len(buf) + 1) :
        /\ i > Len(buf) \/ buf[i].t # "header"
        /\ \A j \in 2..(i - 1) : buf[j].t = "header"

ParseHeadersIter(buf, cap) ==
    LET stop == HeadStop(buf)
        count == stop - 2
    IN  IF count > cap THEN Err("TooManyHeaders")
        ELSE IF stop > Len(buf) THEN Partial
        ELSE IF buf[stop].t = "blank" THEN Complete(stop, SubSeq(buf, 2, stop - 1))
        ELSE IF buf[stop].t # "cut" THEN Err("HeaderName")
        ELSE IF count = cap THEN Err("TooManyHeaders")
        ELSE Partial

HttparseParse(buf, cap) ==
    IF buf = <<>> THEN Partial
    ELSE IF buf[1].t = "cut" THEN Partial
    ELSE IF buf[1].t # "status" THEN Err("Version")
    ELSE ParseHeadersIter(buf, cap)

\* the largest element of a non-empty set of numbers
MaxOf(S) == CHOOSE x \in S : \A y \in S : y <= x

\* HeaderMap::insert for every parsed header in turn: a name that is already
\* in the map has its value replaced, so every name ends with the value of
\* its last occurrence
InsertAll(headers) ==
    [n \in {headers[i].name : i \in DOMAIN headers} |->
        headers[MaxOf({i \in DOMAIN headers : headers[i].name = n})].value]

(***************************************************************************)
(* The open+parse step on a body that was decrypted in place up from       *)
(* decrypted_offset (async_client.rs 174-195, sync_client.rs 152-166):     *)
(* parse, `?`; copy the headers into the output map, `?` on a value that   *)
(* is not UTF-8; then body_offset.unwrap(), which panics on Partial; then  *)
(* the rest of the buffer, inflated when Compression is zstd.              *)
(***************************************************************************)
ParseCapUnchecked(buf) == HttparseParse(buf, Len(buf) + 1)

ParseCapped(buf) == HttparseParse(buf, HEADERS_CAP)

UnwrapOffsetAtStart(parsed) ==
    IF parsed.status = "Partial" THEN Panic("unwrap on Partial") ELSE Ok(0)

\* body_offset.unwrap()
UnwrapOffset(parsed) ==
    IF parsed.status = "Partial" THEN Panic("unwrap on Partial") ELSE Ok(parsed.offset)

ParseDecrypted(body, decrypted_offset) ==
    LET parsed == ParseCapped(SliceFrom(body, decrypted_offset))
    IN  IF parsed.kind = "err" THEN Err("HttpError: " \o parsed.err)
        ELSE IF \E i \in 1..Len(parsed.data.headers) :
                    parsed.data.headers[i].value = NonUtf8
        THEN Err("UTF8Error")
        ELSE LET output_hdrs == InsertAll(parsed.data.headers)
                 body_offset == UnwrapOffset(parsed.data)
                 zstd == /\ CompressionName \in DOMAIN output_hdrs
                         /\ output_hdrs[CompressionName] = ZstdValue
             IN  IF body_offset.kind = "panic" THEN body_offset
                 ELSE LET rest == SliceFrom(body, body_offset.data + decrypted_offset)
                          inflated == ZstdDecodeAll(rest)
                      IN  IF ~zstd THEN Ok([headers |-> output_hdrs, body |-> rest])
                          ELSE IF inflated.kind = "err" THEN inflated
                          ELSE Ok([headers |-> output_hdrs, body |-> inflated.data])

(***************************************************************************)
(* The response harness: a decrypted response is drawn (a number of header *)
(* lines around the capacity, names distinct or repeated, the head ended   *)
(* by the blank line or not, a body) and the open+parse step is applied.   *)
(***************************************************************************)
\* the offset httpcrypt_decrypt reports for a body it decrypted in place: the
\* message starts behind the nonce and the tag
DecryptedOffset == NONCE_SIZE + TAG_SIZE

HeaderCounts ==
    {0, 1, 2} \cup ((HEADERS_CAP - 1)..(HEADERS_CAP + MaxOver))

\* the name of header line i under a naming
HeaderNameOf(naming, i) ==
    CASE naming = "distinct" -> <<"h", i>>
      [] naming = "pairs"    -> <<"h", (i + 1) \div 2>>
      [] naming = "same"     -> <<"h", 1>>

\* n header lines; special states what the first one is
HeaderLines(n, naming, special) ==
    [i \in 1..n |->
        IF i = 1 /\ special = "zstd" THEN HeaderLine(CompressionName, ZstdValue)
        ELSE IF i = 1 /\ special = "non-utf8" THEN HeaderLine(<<"h", 1>>, NonUtf8)
        ELSE IF i = 1 /\ special = "zstd-first" THEN HeaderLine(CompressionName, ZstdValue)
        ELSE IF i = 2 /\ special = "zstd-first" THEN HeaderLine(CompressionName, <<"v", i>>)
        ELSE IF i = 1 /\ special = "zstd-last" THEN HeaderLine(CompressionName, <<"v", i>>)
        ELSE IF i = 2 /\ special = "zstd-last" THEN HeaderLine(CompressionName, ZstdValue)
        ELSE HeaderLine(HeaderNameOf(naming, i), <<"v", i>>)]

\* what follows the header lines
HeadEnd(ending) ==
    CASE ending = "blank" -> <<BlankLine>>
      [] ending = "cut"   -> <<CutLine>>
      [] ending = "junk"  -> <<JunkLine>>
      [] ending = "none"  -> <<>>

ResponseBodies ==
    LET plain == {[i \in 1..n |-> BodyByte(<<"b", i>>)] : n \in 0..MaxBody}
    IN  plain \cup {ZstdEncodeAll(b) : b \in plain}

\* the buffer after it was decrypted in place: 40 raw bytes, then the message
DecryptedBuffer(message) == [i \in 1..DecryptedOffset |-> RawByte] \o message

ParserInit ==
    /\ \/ parser = [ParserIdle EXCEPT !.pc = "decrypted",
                                      !.body = DecryptedBuffer(<<>>),
                                      !.offset = DecryptedOffset]
       \/ \E n \in HeaderCounts, naming \in {"distinct", "pairs", "same"},
             special \in {"none", "zstd", "non-utf8", "zstd-first", "zstd-last"},
             ending \in {"blank", "cut", "junk", "none"},
             b \in ResponseBodies :
             /\ (ending # "blank") => (b = <<>>)
             /\ parser = [ParserIdle EXCEPT
                    !.pc = "decrypted",
                    !.body = DecryptedBuffer(<<StatusLine>>
                                 \o HeaderLines(n, naming, special)
                                 \o HeadEnd(ending) \o b),
                    !.offset = DecryptedOffset]
    /\ codec = CodecIdle
    /\ macs = {}
    /\ keyx = KeyIdle
    /\ client = ClientIdle
    /\ pool = PoolIdle
    /\ vec = VecIdle
    /\ env = EnvIdle
    /\ scan = ScanIdle

ParserParse ==
    /\ parser.pc = "decrypted"
    /\ parser' = [parser EXCEPT !.pc = "parsed",
                                !.out = ParseDecrypted(parser.body, parser.offset)]
    /\ UNCHANGED <<codecVars, keyVars, clientVars, poolVars, vecVars, envVars, scanVars>>

ParserNext == ParserParse

SpecParse == ParserInit /\ [][ParserNext]_vars

\* the decrypted message of the response harness
ParsedMessage == SliceFrom(parser.body, 40)

\* the header lines that follow its status line, in order
ParsedHeaderLines ==
    LET m == ParsedMessage
    IN  SubSeq(m, 2, 1 + Cardinality({i \in 2..Len(m) :
                                        \A j \in 2..i : m[j].t = "header"}))

\* a status line, header lines with UTF-8 values, the blank line, and a body
\* that inflates when the headers announce zstd
ParsedWellFormed ==
    LET m == ParsedMessage
        n == Len(ParsedHeaderLines)
    IN  /\ Len(m) >= n + 2
        /\ m[1].t = "status"
        /\ m[n + 2].t = "blank"
        /\ \A i \in 1..n : ParsedHeaderLines[i].value # NonUtf8
        /\ (\E i \in 1..n : ParsedHeaderLines[i] = HeaderLine(CompressionName, ZstdValue))
              => ZstdDecodeAll(SubSeq(m, n + 3, Len(m))).kind = "ok"

(***************************************************************************)
(* C9 as stated. Header cap: a decrypted response with a status line and   *)
(* at most 64 well-formed header lines followed by a blank line parses     *)
(* and yields all of those headers; one with 65 or more header lines       *)
(* fails with an error and yields no headers and no body.                  *)
(***************************************************************************)
C9_Original ==
    parser.pc = "parsed" =>
        LET hs == ParsedHeaderLines
        IN  /\ (ParsedWellFormed /\ Len(hs) <= 64) =>
                  /\ parser.out.kind = "ok"
                  /\ \A i \in 1..Len(hs) :
                        /\ hs[i].name \in DOMAIN parser.out.data.headers
                        /\ parser.out.data.headers[hs[i].name] = hs[i].value
            /\ (ParsedMessage # <<>> /\ ParsedMessage[1].t = "status" /\ Len(hs) >= 65)
                  => (parser.out.kind = "err" /\ parser.out.data = <<>>)

(***************************************************************************)
(* C9 as amended. Header cap: a decrypted response with a status line and  *)
(* at most 64 well-formed header lines followed by a blank line parses     *)
(* and yields a header map that holds every name of those lines, each with *)
(* the value of its last occurrence, and no other name; one with 65 or     *)
(* more header lines fails with an error and yields no headers and no      *)
(* body.                                                                   *)
(***************************************************************************)
C9_HeaderCap ==
    parser.pc = "parsed" =>
        LET hs == ParsedHeaderLines
        IN  /\ (ParsedWellFormed /\ Len(hs) <= 64) =>
                  /\ parser.out.kind = "ok"
                  /\ DOMAIN parser.out.data.headers = {hs[i].name : i \in 1..Len(hs)}
                  /\ \A i \in 1..Len(hs) :
                        (\A j \in (i + 1)..Len(hs) : hs[j].name # hs[i].name)
                            => parser.out.data.headers[hs[i].name] = hs[i].value
            /\ (ParsedMessage # <<>> /\ ParsedMessage[1].t = "status" /\ Len(hs) >= 65)
                  => (parser.out.kind = "err" /\ parser.out.data = <<>>)

C9_Witness ==
    /\ parser.pc = "parsed"
    /\ ParsedWellFormed
    /\ Len(ParsedHeaderLines) = 64
    /\ parser.out.kind = "ok"
    /\ Cardinality(DOMAIN parser.out.data.headers) = 64

CodecInit ==
    /\ \E p \in SeqsUpTo(PlainBytes, MaxLen), k \in 1..NumKeys :
          codec = [CodecIdle EXCEPT !.pc = "start", !.plain = p, !.key = k]
    /\ macs = {}
    /\ keyx = KeyIdle
    /\ parser = ParserIdle
    /\ client = ClientIdle
    /\ pool = PoolIdle
    /\ vec = VecIdle
    /\ env = EnvIdle
    /\ scan = ScanIdle

CodecSeal ==
    /\ codec.pc = "start"
    /\ \E n \in 0..(NumNonces - 1) :
          LET nonce == NonceBytes(n)
              ct    == ApplyKeyStream(codec.key, nonce, codec.plain)
          IN  \E tag \in IssuableTags(codec.key, nonce, ct) :
                LET dest == EncryptInplace(codec.plain, codec.key, nonce, tag)
                IN  /\ macs' = macs \cup
                          {[key |-> codec.key, nonce |-> nonce, ct |-> ct, tag |-> tag]}
                    /\ codec' = [codec EXCEPT !.pc = "sealed", !.sealed = dest,
                                              !.body = dest]
    /\ UNCHANGED <<keyVars, parseVars, clientVars, poolVars, vecVars, envVars, scanVars>>

\* one bit of the envelope changes between sealing and opening
CodecFlipBit ==
    /\ codec.pc = "sealed"
    /\ ~codec.flipped
    /\ \E pos \in 1..Len(codec.body), bit \in 0..7 :
          codec' = [codec EXCEPT !.flipped = TRUE,
                                 !.body[pos] = Xor(codec.body[pos], Pow2(bit))]
    /\ UNCHANGED <<macs, keyVars, parseVars, clientVars, poolVars, vecVars, envVars, scanVars>>

CodecOpen ==
    /\ codec.pc = "sealed"
    /\ codec' = [codec EXCEPT !.pc = "opened",
                              !.out = HttpcryptDecrypt(codec.body, codec.key)]
    /\ UNCHANGED <<macs, keyVars, parseVars, clientVars, poolVars, vecVars, envVars, scanVars>>

\* a response body that ends before the ciphertext starts: the first n bytes
\* of an envelope, n < NONCE_SIZE + TAG_SIZE, handed to httpcrypt_decrypt
CodecOpenShort ==
    /\ codec.pc = "sealed"
    /\ ~codec.flipped
    /\ \E n \in 0..(NONCE_SIZE + TAG_SIZE - 1) :
          LET body == Slice(codec.sealed, 0, n)
          IN  codec' = [codec EXCEPT !.pc = "short", !.body = body,
                                     !.out = HttpcryptDecrypt(body, codec.key)]
    /\ UNCHANGED <<macs, keyVars, parseVars, clientVars, poolVars, vecVars, envVars, scanVars>>

CodecNext == CodecSeal \/ CodecFlipBit \/ CodecOpen \/ CodecOpenShort

SpecCodec == CodecInit /\ [][CodecNext]_vars

(***************************************************************************)
(* C1. Round trip: opening the envelope that sealing a plaintext P (the    *)
(* empty one included) under a secret S produced, with the same S and      *)
(* with the envelope unchanged, succeeds and returns exactly P.            *)
(***************************************************************************)
C1_RoundTrip ==
    (codec.pc = "opened" /\ ~codec.flipped) => codec.out = Ok(codec.plain)

C1_Witness ==
    /\ codec.pc = "opened"
    /\ ~codec.flipped
    /\ Len(codec.plain) = MaxLen
    /\ codec.out.kind = "ok"

(***************************************************************************)
(* C2. Tamper detection, fail-closed: with any single bit of a produced    *)
(* envelope flipped (in the nonce, the tag or the ciphertext), opening     *)
(* under the same secret returns the decrypt error and no data; and        *)
(* whenever the tag of the opened body does not verify, the result is an   *)
(* error that carries no plaintext byte.                                   *)
(***************************************************************************)
C2_TamperFailsClosed ==
    codec.pc = "opened" =>
        /\ codec.flipped => codec.out = Err("EncryptionError: Cannot decrypt")
        /\ ~TagVerifies(codec.key, Slice(codec.body, 0, 24),
                        SliceFrom(codec.body, 40), Slice(codec.body, 24, 40))
              => (codec.out.kind = "err" /\ codec.out.data = <<>>)

C2_Witness ==
    /\ codec.pc = "opened"
    /\ codec.flipped
    /\ Len(codec.plain) > 0
    /\ codec.body[Len(codec.body)] # codec.sealed[Len(codec.sealed)]
    /\ codec.out.kind = "err"

(***************************************************************************)
(* C3. Envelope layout: sealing N plaintext bytes gives exactly 40+N       *)
(* bytes; bytes [0,24) are the nonce used for sealing, bytes [24,40) the   *)
(* tag issued for the ciphertext under that nonce, bytes [40,40+N) the     *)
(* ciphertext (the plaintext XOR the keystream of that nonce); and         *)
(* decrypt succeeds exactly when the tag it reads at [24,40) verifies for  *)
(* the nonce it reads at [0,24) and the ciphertext it reads from 40 on,    *)
(* returning that ciphertext decrypted.                                    *)
(***************************************************************************)
C3_EnvelopeLayout ==
    /\ codec.pc \in {"sealed", "opened"} =>
          LET e == codec.sealed
              nonce == Slice(e, 0, 24)
          IN  /\ Len(e) = 40 + Len(codec.plain)
              /\ \E n \in 0..(NumNonces - 1) : nonce = NonceBytes(n)
              /\ SliceFrom(e, 40) = ApplyKeyStream(codec.key, nonce, codec.plain)
              /\ TagVerifies(codec.key, nonce, SliceFrom(e, 40), Slice(e, 24, 40))
    /\ codec.pc = "opened" =>
          LET b == codec.body
              verified == TagVerifies(codec.key, Slice(b, 0, 24),
                                      SliceFrom(b, 40), Slice(b, 24, 40))
          IN  /\ codec.out.kind = "ok" <=> verified
              /\ verified =>
                    codec.out.data =
                        ApplyKeyStream(codec.key, Slice(b, 0, 24), SliceFrom(b, 40))

C3_Witness ==
    /\ codec.pc = "opened"
    /\ Len(codec.sealed) = 40 + MaxLen
    /\ MaxLen > 0
    /\ codec.out.kind = "ok"


(***************************************************************************)
(* The request.  Strings are sequences of bytes (ASCII).                   *)
(***************************************************************************)
\* b"POST "
PostPrefix == <<80, 79, 83, 84, 32>>

\* b" HTTP/1.1\n"
Http11Suffix == <<32, 72, 84, 84, 80, 47, 49, 46, 49, 10>>

\* "/checkv2", the url of the scan endpoint
ScanUrl == <<47, 99, 104, 101, 99, 107, 118, 50>>

\* "Password"
PasswordStr == <<80, 97, 115, 115, 119, 111, 114, 100>>

\* "Content-Encoding"
ContentEncodingStr ==
    <<67, 111, 110, 116, 101, 110, 116, 45, 69, 110, 99, 111, 100, 105, 110, 103>>

\* "Compression"
CompressionStr == <<67, 111, 109, 112, 114, 101, 115, 115, 105, 111, 110>>

\* "zstd"
ZstdStr == <<122, 115, 116, 100>>

\* "From"
FromStr == <<70, 114, 111, 109>>

\* "File"
FileStr == <<70, 105, 108, 101>>

\* "Key"
KeyStr == <<75, 101, 121>>

\* the magic number that starts a zstd frame
ZstdFrameMagic == <<40, 181, 47, 253>>

\* zstd::encode_all on the bytes of a request body
ZstdEncodeBody(bytes) == ZstdFrameMagic \o bytes

\* the name under which a HeaderMap keeps a header: in lower case
HeaderNameFromStr(str) ==
    [i \in 1..Len(str) |-> IF str[i] \in 65..90 THEN str[i] + 32 ELSE str[i]]

\* req.header(k, v): the entry of the request's HeaderMap
Header(k, v) == [name |-> HeaderNameFromStr(k), value |-> v]

\* EnvelopeData::into_iter, collected into the HashMap extra_hdrs
ExtraHdrs(envelope_data) ==
    (IF envelope_data.from.some
     THEN {[k |-> FromStr, v |-> envelope_data.from.v]} ELSE {})
    \cup
    (IF envelope_data.file_path.some
     THEN {[k |-> FileStr, v |-> envelope_data.file_path.v]} ELSE {})

\* the orders in which a HashMap may hand out its entries
IterOrders(map) ==
    {order \in [1..Cardinality(map) -> map] :
        \A i, j \in 1..Cardinality(map) : (i # j) => (order[i] # order[j])}

\* extra_hdrs.contains_key("File")
HasFileHeader(extra_hdrs) == \E e \in extra_hdrs : e.k = FileStr

\* every endpoint of commands.rs has need_body: true
EndpointNeedBody == TRUE

NeedBodyOfEndpoint(extra_hdrs) == EndpointNeedBody

NeedBody(extra_hdrs) == EndpointNeedBody /\ ~HasFileHeader(extra_hdrs)

\* the method of the request that is built first
Method(need_body) == IF need_body THEN "POST" ELSE "GET"

\* the headers of that request, in the order async_client.rs sets them:
\* Password, then Content-Encoding and Compression, then the extra headers
RequestHeaders(config, need_body, extra_order) ==
    (IF config.password.some
     THEN <<Header(PasswordStr, config.password.v)>> ELSE <<>>)
    \o (IF config.zstd /\ need_body
        THEN <<Header(ContentEncodingStr, ZstdStr), Header(CompressionStr, ZstdStr)>>
        ELSE <<>>)
    \o [i \in 1..Len(extra_order) |-> Header(extra_order[i].k, extra_order[i].v)]

\* the body handed to httpcrypt_encrypt, or set on the plain request
RequestBody(config, need_body, body) ==
    IF ~need_body THEN <<>>
    ELSE IF config.zstd THEN ZstdEncodeBody(body)
    ELSE body


(***************************************************************************)
(* httpcrypt_encrypt: the inner request is written into dest ("POST ", the *)
(* url, " HTTP/1.1\n", a line k:v\n per header as the iterator hands them  *)
(* out, an empty line, the body), then dest is sealed under the secret     *)
(* agreed between a new local secret key and the remote key.               *)
(***************************************************************************)
\* k ':' v '\n' for every header
RECURSIVE HeaderBytes(_)
HeaderBytes(headers) ==
    IF headers = <<>> THEN <<>>
    ELSE Head(headers).name \o <<58>> \o Head(headers).value \o <<10>>
            \o HeaderBytes(Tail(headers))

\* dest before it is sealed
InnerRequest(url, body, headers) ==
    PostPrefix \o url \o Http11Suffix \o HeaderBytes(headers) \o <<10>> \o body

\* the tag Poly1305 computes for (key, nonce, ct) in a request
Poly1305Tag(key, nonce, ct) == CHOOSE t \in IssuableTags(key, nonce, ct) : TRUE

\* XChaCha20Poly1305::new(nm): the cipher keyed with the shared secret
Secretbox(nm) == WSum(nm)

HttpcryptEncrypt(url, body, headers, peer_key, local_sk, nonce, tag) ==
    LET dest == InnerRequest(url, body, headers)
        nm   == DeriveSharedSecret(peer_key, local_sk)
    IN  IF nm.kind # "ok" THEN nm
        ELSE Ok([body       |-> EncryptInplace(dest, Secretbox(nm.data), nonce, tag),
                 peer_key   |-> PeerKey(local_sk),
                 shared_key |-> nm.data])

\* the secret key httpcrypt_encrypt generates in an attempt, given the number
\* of values OsRng has handed out and the attempts made so far
AttemptSecretKeyReused(drawn, attempts) ==
    IF attempts = <<>> THEN SecretKeyBytes(drawn) ELSE attempts[1].local_sk

AttemptSecretKey(drawn, attempts) == SecretKeyBytes(drawn)

\* the nonce encrypt_inplace generates in that attempt
AttemptNonce(drawn, attempts) == NonceBytes(drawn + 1)

(***************************************************************************)
(* The retry decision after a failed send: `(retry_cnt - 1) == 0` ends the *)
(* loop with the transport error, otherwise retry_cnt is decremented.      *)
(* retry_cnt is a u32: at 0 the subtraction overflows, which panics in a   *)
(* build with overflow checks and wraps around in one without.  A u32 is   *)
(* held as the integer of the same 32 bits in two's complement: -1 is      *)
(* 2^32 - 1, the value 0 - 1 wraps to.                                     *)
(***************************************************************************)
\* retry_cnt - 1 (mod 2^32); no value the model reaches is 2^31 away from 0
WrappingSub1(retry_cnt) == retry_cnt - 1

RetryChecked(retry_cnt) ==
    IF retry_cnt = 0 THEN [next |-> "panic", retry_cnt |-> retry_cnt]
    ELSE IF retry_cnt - 1 = 0 THEN [next |-> "break", retry_cnt |-> retry_cnt]
    ELSE [next |-> "continue", retry_cnt |-> retry_cnt - 1]

RetryWrapping(retry_cnt) ==
    IF WrappingSub1(retry_cnt) = 0 THEN [next |-> "break", retry_cnt |-> retry_cnt]
    ELSE [next |-> "continue", retry_cnt |-> WrappingSub1(retry_cnt)]

RetryDecisions(retry_cnt) == {RetryChecked(retry_cnt), RetryWrapping(retry_cnt)}


(***************************************************************************)
(* The server's side: an inner response is a byte string; LinesOf gives    *)
(* the lines and body bytes the parser finds in it.                        *)
(***************************************************************************)
\* "HTTP/1.1 200 OK\r\n"
StatusLineStr == <<72, 84, 84, 80, 47, 49, 46, 49, 32, 50, 48, 48, 32, 79, 75, 13, 10>>

\* "h1: v1\r\n"
HeaderLineStr == <<104, 49, 58, 32, 118, 49, 13, 10>>

\* "\r\n"
CrLf == <<13, 10>>

\* "{}"
JsonStr == <<123, 125>>

ReplyMessages ==
    {[bytes |-> StatusLineStr \o HeaderLineStr \o CrLf \o JsonStr,
      units |-> <<StatusLine, HeaderLine(<<"h", 1>>, <<"v", 1>>), BlankLine,
                  BodyByte(<<"b", 1>>), BodyByte(<<"b", 2>>)>>],
     [bytes |-> StatusLineStr \o HeaderLineStr,
      units |-> <<StatusLine, HeaderLine(<<"h", 1>>, <<"v", 1>>)>>],
     [bytes |-> JsonStr, units |-> <<JunkLine>>],
     [bytes |-> <<>>, units |-> <<>>]}

LinesOf(bytes) == (CHOOSE m \in ReplyMessages : m.bytes = bytes).units

\* a byte string with the lowest bit of the byte at pos flipped
FlipBit(bytes, pos) == [bytes EXCEPT ![pos] = Xor(@, 1)]

(***************************************************************************)
(* ReqwestRequest::response after the loop: the status check, then, when a *)
(* shared key was kept, httpcrypt_decrypt and the parse of the inner       *)
(* response; otherwise the response as it came.                            *)
(***************************************************************************)
OpenResponse(body, sk) ==
    LET opened == HttpcryptDecrypt(body, Secretbox(sk))
    IN  IF opened.kind # "ok" THEN [failed |-> "open", result |-> opened]
        ELSE LET parsed == ParseDecrypted(DecryptedBuffer(LinesOf(opened.data)),
                                          DecryptedOffset)
             IN  [failed |-> IF parsed.kind = "ok" THEN "" ELSE "parse",
                  result |-> parsed]

HandleResponse(response, maybe_sk) ==
    IF ~response.success
    THEN [failed |-> "status", result |-> Err("HttpError: Status")]
    ELSE IF maybe_sk.some THEN OpenResponse(response.body, maybe_sk.v)
    ELSE [failed |-> "", result |-> Ok([headers |-> <<>>, body |-> response.body])]


(***************************************************************************)
(* The memory that holds key material in an attempt.  A cell is one value  *)
(* of encryption.rs: the SecretKey local_sk, the bytes local_sk.to_bytes() *)
(* and the clamped bytes made of them, the Scalar e, the point ec_point,   *)
(* the bytes point.to_bytes(), the shared secret nm, and the cipher cbox   *)
(* that holds a copy of nm.  A cell is zeroed when its value is dropped    *)
(* and the type of the value zeroizes on drop; arrays and Scalar are Copy  *)
(* types, which have no drop.                                              *)
(***************************************************************************)
SecretCells ==
    {"local_sk", "local_sk.to_bytes()", "clamp_integer", "e", "ec_point",
     "point.to_bytes()", "nm", "cbox"}

\* SecretKey, Zeroizing<MontgomeryPoint>, Zeroizing<GenericArray<u8, U32>>,
\* XChaCha20Poly1305
ZeroizeOnDrop == {"local_sk", "ec_point", "nm", "cbox"}

\* the cells httpcrypt_encrypt has written when it returns: the key
\* agreement that fails does so before it makes the scalar
CellsWritten(nm) == IF nm.kind = "ok" THEN SecretCells ELSE {"local_sk"}

\* the cells whose values are dropped inside httpcrypt_encrypt; cbox is
\* moved out to the caller, and on to maybe_sk
DroppedInEncrypt == SecretCells \ {"cbox"}

\* the cells of attempt n that still hold key material after httpcrypt_encrypt
LiveAfterEncrypt(n, nm) ==
    {[attempt |-> n, cell |-> c] :
        c \in {w \in CellsWritten(nm) : ~(w \in DroppedInEncrypt /\ w \in ZeroizeOnDrop)}}

\* maybe_sk is overwritten or goes out of scope: the cipher in it is dropped
DropMaybeSk(live) == {l \in live : ~(l.cell = "cbox" /\ l.cell \in ZeroizeOnDrop)}

(***************************************************************************)
(* One request through ReqwestRequest::response.  The steps are the parts  *)
(* of the function between its awaits: an iteration of the loop up to      *)
(* execute(), the two outcomes of execute(), and the rest after the loop.  *)
(***************************************************************************)
\* "q1"
PasswordValues == {<<113, 49>>}

\* "a@b"
FromValues == {<<97, 64, 98>>}

\* "/f"
FilePaths == {<<47, 102>>}

\* "hi"
MessageBodies == {<<104, 105>>}

Options(S) == {None} \cup {Some(x) : x \in S}

\* a key of 52 symbols, one of 2, one with a character outside the alphabet
EncryptionKeys == {TestKey, KeyFill(0, 2), WithOtherChar(TestKey, 1)}

Init ==
    /\ \E retries \in 0..MaxRetries, zstd \in BOOLEAN,
          password \in Options(PasswordValues),
          encryption_key \in Options(EncryptionKeys),
          from \in Options(FromValues), file_path \in Options(FilePaths),
          body \in MessageBodies :
          LET envelope_data == [from |-> from, file_path |-> file_path]
          IN  \E order \in IterOrders(ExtraHdrs(envelope_data)) :
                client = [ClientIdle EXCEPT
                    !.pc = "loop",
                    !.config = [retries |-> retries, zstd |-> zstd,
                                password |-> password,
                                encryption_key |-> encryption_key],
                    !.envelope_data = envelope_data,
                    !.body = body,
                    !.extra_hdrs = order,
                    !.retry_cnt = retries]
    /\ macs = {}
    /\ codec = CodecIdle
    /\ keyx = KeyIdle
    /\ parser = ParserIdle
    /\ pool = PoolIdle
    /\ vec = VecIdle
    /\ env = EnvIdle
    /\ scan = ScanIdle

\* the attempt of a request that is sent as it was built
PlainAttempt(method, headers, body) ==
    [encrypted |-> FALSE, inner_method |-> method, inner_headers |-> headers,
     inner_body |-> body, method |-> method, headers |-> headers, body |-> body,
     local_sk |-> <<>>, nonce |-> <<>>, shared_key |-> <<>>]

\* a wrapping that adds the Key header and the envelope to the request as it
\* was built, and keeps its method and headers
EncryptedAttemptOnInner(method, headers, body, encrypted, key_header, local_sk, nonce) ==
    [encrypted |-> TRUE, inner_method |-> method, inner_headers |-> headers,
     inner_body |-> body, method |-> method,
     headers |-> headers \o <<Header(KeyStr, key_header)>>,
     body |-> encrypted.body,
     local_sk |-> local_sk, nonce |-> nonce, shared_key |-> encrypted.shared_key]

\* the attempt of a request that was wrapped: a POST that carries the Key
\* header and the sealed inner request
EncryptedAttempt(method, headers, body, encrypted, key_header, local_sk, nonce) ==
    [encrypted |-> TRUE, inner_method |-> method, inner_headers |-> headers,
     inner_body |-> body, method |-> "POST",
     headers |-> <<Header(KeyStr, key_header)>>,
     body |-> encrypted.body,
     local_sk |-> local_sk, nonce |-> nonce, shared_key |-> encrypted.shared_key]

\* lines 76-143: build the request, wrap it when an encryption key is set
SendAttempt ==
    /\ client.pc = "loop"
    /\ LET extra     == {client.extra_hdrs[i] : i \in DOMAIN client.extra_hdrs}
           need_body == NeedBody(extra)
           method    == Method(need_body)
           headers   == RequestHeaders(client.config, need_body, client.extra_hdrs)
           body      == RequestBody(client.config, need_body, client.body)
           key       == client.config.encryption_key
           local_sk  == AttemptSecretKey(client.drawn, client.attempts)
           nonce     == AttemptNonce(client.drawn, client.attempts)
           nm        == DeriveSharedSecret(key.v, local_sk)
       IN  IF ~key.some
           THEN /\ client' = [client EXCEPT
                        !.pc = "executing",
                        !.attempts = Append(@, PlainAttempt(method, headers, body))]
                /\ UNCHANGED macs
           ELSE IF nm.kind # "ok"
           THEN /\ client' = [client EXCEPT
                        !.pc = "done", !.failed = "key",
                        !.drawn = @ + 1, !.result = nm,
                        !.live = DropMaybeSk(@) \cup
                                 DropMaybeSk(LiveAfterEncrypt(Len(client.attempts) + 1, nm))]
                /\ UNCHANGED macs
           ELSE LET box == Secretbox(nm.data)
                    ct  == ApplyKeyStream(box, nonce, InnerRequest(ScanUrl, body, headers))
                    tag == Poly1305Tag(box, nonce, ct)
                    encrypted  == HttpcryptEncrypt(ScanUrl, body, headers, key.v,
                                                   local_sk, nonce, tag)
                    key_header == MakeKeyHeader(key.v, encrypted.data.peer_key)
                IN  /\ macs' = macs \cup
                          {[key |-> box, nonce |-> nonce, ct |-> ct, tag |-> tag]}
                    /\ IF key_header.kind # "ok"
                       THEN client' = [client EXCEPT
                                !.pc = "done", !.failed = "key",
                                !.drawn = @ + 2, !.result = key_header,
                                !.live = DropMaybeSk(@) \cup
                                    DropMaybeSk(LiveAfterEncrypt(Len(client.attempts) + 1, nm))]
                       ELSE client' = [client EXCEPT
                                !.pc = "executing",
                                !.drawn = @ + 2,
                                !.maybe_sk = Some(encrypted.data.shared_key),
                                !.live = DropMaybeSk(@) \cup
                                    LiveAfterEncrypt(Len(client.attempts) + 1, nm),
                                !.attempts = Append(@,
                                    EncryptedAttempt(method, headers, body,
                                        encrypted.data, key_header.data,
                                        local_sk, nonce))]
    /\ UNCHANGED <<codec, keyVars, parseVars, poolVars, vecVars, envVars, scanVars>>

\* lines 146-154: execute() failed
TransportErr ==
    /\ client.pc = "executing"
    /\ \E d \in RetryDecisions(client.retry_cnt) :
          CASE d.next = "panic" ->
                 client' = [client EXCEPT
                     !.pc = "done", !.failed = "transport",
                     !.live = DropMaybeSk(@),
                     !.result = Panic("attempt to subtract with overflow")]
            [] d.next = "break" ->
                 client' = [client EXCEPT
                     !.pc = "done", !.failed = "transport",
                     !.live = DropMaybeSk(@),
                     !.result = Err("HttpError: error sending request")]
            [] d.next = "continue" ->
                 /\ Len(client.attempts) < MaxAttempts
                 /\ client' = [client EXCEPT !.pc = "loop", !.retry_cnt = d.retry_cnt]
    /\ UNCHANGED <<codecVars, keyVars, parseVars, poolVars, vecVars, envVars, scanVars>>


\* line 145: execute() returned a response.  A server that answers with
\* success seals an inner response under the secret it shares with the
\* sender of one of the requests, with a nonce of its own; the body may be
\* changed or cut on the way.
TransportOk ==
    /\ client.pc = "executing"
    /\ \/ /\ client' = [client EXCEPT
                  !.pc = "received",
                  !.response = [success |-> FALSE, body |-> <<>>]]
          /\ UNCHANGED macs
       \/ /\ ~client.maybe_sk.some
          /\ client' = [client EXCEPT
                  !.pc = "received",
                  !.response = [success |-> TRUE, body |-> JsonStr]]
          /\ UNCHANGED macs
       \/ /\ client.maybe_sk.some
          /\ \E m \in ReplyMessages, a \in DOMAIN client.attempts :
                LET box    == Secretbox(client.attempts[a].shared_key)
                    nonce  == NonceBytes(client.drawn)
                    ct     == ApplyKeyStream(box, nonce, m.bytes)
                    tag    == Poly1305Tag(box, nonce, ct)
                    sealed == EncryptInplace(m.bytes, box, nonce, tag)
                IN  \E body \in {sealed, <<>>}
                           \cup {FlipBit(sealed, pos) :
                                   pos \in {NONCE_SIZE + 1, Len(sealed)}} :
                      /\ client' = [client EXCEPT
                             !.pc = "received",
                             !.drawn = @ + 1,
                             !.response = [success |-> TRUE, body |-> body]]
                      /\ macs' = macs \cup
                             {[key |-> box, nonce |-> nonce, ct |-> ct, tag |-> tag]}
    /\ UNCHANGED <<codec, keyVars, parseVars, poolVars, vecVars, envVars, scanVars>>

\* lines 159-198
Finish ==
    /\ client.pc = "received"
    /\ LET out == HandleResponse(client.response, client.maybe_sk)
       IN  client' = [client EXCEPT
               !.pc = "done",
               !.failed = out.failed,
               !.opened_with = IF client.response.success THEN client.maybe_sk ELSE None,
               !.live = DropMaybeSk(@),
               !.result = out.result]
    /\ UNCHANGED <<codecVars, keyVars, parseVars, poolVars, vecVars, envVars, scanVars>>

Next == SendAttempt \/ TransportErr \/ TransportOk \/ Finish

Spec == Init /\ [][Next]_vars


\* the attempts of the request that were wrapped
EncryptedAttempts == {i \in DOMAIN client.attempts : client.attempts[i].encrypted}

\* the plaintext under the envelope of a wrapped attempt
SealedPlaintext(a) ==
    ApplyKeyStream(Secretbox(a.shared_key), a.nonce,
                   SliceFrom(a.body, NONCE_SIZE + TAG_SIZE))

(***************************************************************************)
(* C4. Fresh keys per attempt: every attempt of an encrypted request is    *)
(* sealed under a secret key, a shared secret and a nonce of its own (no   *)
(* two attempts have one of them in common), the shared secret being the   *)
(* one agreed between that attempt's secret key and the remote key; the    *)
(* key kept for the response is the one of the latest attempt, and a       *)
(* response is opened with that key only.                                  *)
(***************************************************************************)
C4_FreshKeysPerAttempt ==
    /\ \A i \in EncryptedAttempts :
          LET a == client.attempts[i]
          IN  /\ a.shared_key =
                    DeriveSharedSecret(client.config.encryption_key.v, a.local_sk).data
              /\ Slice(a.body, 0, NONCE_SIZE) = a.nonce
              /\ TagVerifies(Secretbox(a.shared_key), a.nonce,
                             SliceFrom(a.body, NONCE_SIZE + TAG_SIZE),
                             Slice(a.body, NONCE_SIZE, NONCE_SIZE + TAG_SIZE))
              /\ \A j \in EncryptedAttempts :
                    (j < i) =>
                        /\ client.attempts[j].local_sk # a.local_sk
                        /\ client.attempts[j].shared_key # a.shared_key
                        /\ Secretbox(client.attempts[j].shared_key) # Secretbox(a.shared_key)
                        /\ client.attempts[j].nonce # a.nonce
    /\ (client.attempts # <<>> /\ client.config.encryption_key.some) =>
          client.maybe_sk = Some(client.attempts[Len(client.attempts)].shared_key)
    /\ client.opened_with.some =>
          client.opened_with.v = client.attempts[Len(client.attempts)].shared_key

\* a request whose third attempt was answered, and the answer opened
C4_Witness ==
    /\ Len(client.attempts) = 3
    /\ EncryptedAttempts = 1..3
    /\ client.opened_with.some
    /\ client.result.kind = "ok"

(***************************************************************************)
(* C5. Errors are terminal: when the key decoding or key agreement, the    *)
(* opening of the response or the parsing of the inner response fails,     *)
(* the request is over, its outcome is that error (a value of              *)
(* RspamdError), and nothing is sent again.                                *)
(***************************************************************************)
C5_ErrorsTerminal ==
    client.failed \in {"key", "open", "parse"} =>
        /\ client.pc = "done"
        /\ client.result.kind = "err"
        /\ ~ENABLED SendAttempt

\* the request line and header lines C8 describes, for a wrapped attempt
MethodStr(method) == IF method = "POST" THEN <<80, 79, 83, 84>> ELSE <<71, 69, 84>>

RequestLine(method, path) == MethodStr(method) \o <<32>> \o path \o Http11Suffix

\* the length of the lines of the first n headers
RECURSIVE LinesLen(_, _)
LinesLen(headers, n) ==
    IF n = 0 THEN 0
    ELSE LinesLen(headers, n - 1) + Len(headers[n].name) + Len(headers[n].value) + 2

(***************************************************************************)
(* C8. Request framing: the plaintext under the envelope of a wrapped      *)
(* request is the request line "METHOD path HTTP/1.1\n" with the method of *)
(* the request that is wrapped, then for the i-th header of that request   *)
(* the i-th line "Name:Value\n", then one empty line, then the body of     *)
(* that request and nothing else.                                          *)
(***************************************************************************)
C8_RequestFraming ==
    \A i \in EncryptedAttempts :
        LET a     == client.attempts[i]
            plain == SealedPlaintext(a)
            line  == RequestLine(a.inner_method, ScanUrl)
            n     == Len(a.inner_headers)
            body  == Len(line) + LinesLen(a.inner_headers, n) + 1
        IN  /\ Len(plain) = body + Len(a.inner_body)
            /\ SubSeq(plain, 1, Len(line)) = line
            /\ \A h \in 1..n :
                  LET from == Len(line) + LinesLen(a.inner_headers, h - 1)
                      hdr  == a.inner_headers[h]
                  IN  SubSeq(plain, from + 1, from + Len(hdr.name) + Len(hdr.value) + 2)
                          = hdr.name \o <<58>> \o hdr.value \o <<10>>
            /\ plain[body] = 10
            /\ SubSeq(plain, body + 1, Len(plain)) = a.inner_body


(***************************************************************************)
(* C11. Secret cleanup on every exit path: when a request is over, no cell *)
(* of any of its attempts holds key material any more, and while it runs   *)
(* only the cells of the latest attempt may: an attempt that was           *)
(* superseded by a retry has left none.                                    *)
(***************************************************************************)
C11_SecretCleanup ==
    \A l \in client.live :
        /\ client.pc # "done"
        /\ l.attempt = Len(client.attempts)


\* the bytes of the response harness's buffer behind the blank line
ParsedRest ==
    SliceFrom(parser.body, 40 + Len(ParsedHeaderLines) + 2)

C13_FilePathNoBody ==
    client.envelope_data.file_path.some =>
        \A i \in DOMAIN client.attempts :
            LET a == client.attempts[i]
                head == Len(PostPrefix) + Len(ScanUrl) + Len(Http11Suffix)
                            + LinesLen(a.inner_headers, Len(a.inner_headers))
            IN  /\ \E h \in DOMAIN a.inner_headers :
                      a.inner_headers[h] =
                          Header(FileStr, client.envelope_data.file_path.v)
                /\ a.inner_body = <<>>
                /\ ~a.encrypted => a.body = <<>>
                /\ a.encrypted =>
                      /\ Len(SealedPlaintext(a)) = head + 1
                      /\ SealedPlaintext(a)[head] = 10
                      /\ SealedPlaintext(a)[head + 1] = 10
                      /\ Len(a.body) = NONCE_SIZE + TAG_SIZE + head + 1

\* an encrypted file scan of a message that is not empty, sent twice
C13_Witness ==
    /\ client.envelope_data.file_path.some
    /\ Len(client.attempts) = 2
    /\ client.attempts[2].encrypted
    /\ client.body # <<>>
    /\ client.config.zstd


(***************************************************************************)
(* Requests that run at the same time.  Each task is one call of           *)
(* ReqwestRequest::response with its own locals (retry_cnt, maybe_sk, the  *)
(* request it builds); the tasks share the Config, which they only read,   *)
(* and OsRng.  The requests are encrypted scans with the default number of *)
(* retries; a step of a task is a part of the function between two awaits. *)
(***************************************************************************)
\* Config::retries, #[builder(default=1)]
DefaultRetries == 1

\* the message task r scans: "hi", "hj", ...
TaskBody(r) == <<104, 104 + r>>

\* the inner responses a server sends to a task: the complete ones
TaskReplies == {m \in ReplyMessages : \E i \in DOMAIN m.units : m.units[i] = BlankLine}

\* the nonce a server draws, from a generator of its own, for the response
\* to the request of task q that is delivered to task r
ServerNonce(q, r) == NonceBytes(2 * (q * NumTasks + r))

TaskIdle ==
    [pc |-> "loop", body |-> <<>>, retry_cnt |-> DefaultRetries, maybe_sk |-> None,
     attempts |-> <<>>, response |-> [success |-> FALSE, body |-> <<>>],
     reply |-> [message |-> <<>>, for |-> 0, intact |-> FALSE],
     opened_with |-> None, result |-> NoResult]

PoolInit ==
    /\ pool = [drawn |-> 0,
               tasks |-> [r \in 1..NumTasks |-> [TaskIdle EXCEPT !.body = TaskBody(r)]]]
    /\ macs = {}
    /\ codec = CodecIdle
    /\ keyx = KeyIdle
    /\ parser = ParserIdle
    /\ client = ClientIdle
    /\ vec = VecIdle
    /\ env = EnvIdle
    /\ scan = ScanIdle

TaskKeyOfFirst(tasks, r) == tasks[1].maybe_sk

\* the local maybe_sk of task r
TaskKey(tasks, r) == tasks[r].maybe_sk

\* lines 76-143 in task r
TaskSend(r) ==
    /\ pool.tasks[r].pc = "loop"
    /\ LET task     == pool.tasks[r]
           local_sk == SecretKeyBytes(pool.drawn)
           nonce    == NonceBytes(pool.drawn + 1)
           nm       == DeriveSharedSecret(TestKey, local_sk)
           box      == Secretbox(nm.data)
           ct       == ApplyKeyStream(box, nonce, InnerRequest(ScanUrl, task.body, <<>>))
           tag      == Poly1305Tag(box, nonce, ct)
           encrypted  == HttpcryptEncrypt(ScanUrl, task.body, <<>>, TestKey,
                                          local_sk, nonce, tag)
           key_header == MakeKeyHeader(TestKey, encrypted.data.peer_key)
       IN  /\ macs' = macs \cup {[key |-> box, nonce |-> nonce, ct |-> ct, tag |-> tag]}
           /\ pool' = [pool EXCEPT
                  !.drawn = @ + 2,
                  !.tasks[r] = [@ EXCEPT
                      !.pc = "executing",
                      !.maybe_sk = Some(encrypted.data.shared_key),
                      !.attempts = Append(@,
                          EncryptedAttempt("POST", <<>>, task.body, encrypted.data,
                                           key_header.data, local_sk, nonce))]]
    /\ UNCHANGED <<codec, keyVars, parseVars, clientVars, vecVars, envVars, scanVars>>

\* lines 146-154 in task r
TaskTransportErr(r) ==
    /\ pool.tasks[r].pc = "executing"
    /\ \E d \in RetryDecisions(pool.tasks[r].retry_cnt) :
          /\ d.next = "break"
          /\ pool' = [pool EXCEPT !.tasks[r] = [@ EXCEPT
                         !.pc = "done",
                         !.result = Err("HttpError: error sending request")]]
    /\ UNCHANGED <<codecVars, keyVars, parseVars, clientVars, vecVars, envVars, scanVars>>

\* line 145 in task r: the response is an inner response sealed for the
\* request of some task, as it was sealed or changed on the way
TaskTransportOk(r) ==
    /\ pool.tasks[r].pc = "executing"
    /\ \E m \in TaskReplies, q \in 1..NumTasks, intact \in BOOLEAN :
          /\ pool.tasks[q].attempts # <<>>
          /\ (~intact) => (q = r)
          /\ LET box    == Secretbox(pool.tasks[q].attempts[1].shared_key)
                 nonce  == ServerNonce(q, r)
                 ct     == ApplyKeyStream(box, nonce, m.bytes)
                 tag    == Poly1305Tag(box, nonce, ct)
                 sealed == EncryptInplace(m.bytes, box, nonce, tag)
             IN  /\ macs' = macs \cup
                        {[key |-> box, nonce |-> nonce, ct |-> ct, tag |-> tag]}
                 /\ pool' = [pool EXCEPT
                        !.tasks[r] = [@ EXCEPT
                            !.pc = "received",
                            !.reply = [message |-> m.bytes, for |-> q, intact |-> intact],
                            !.response =
                                [success |-> TRUE,
                                 body |-> IF intact THEN sealed
                                          ELSE FlipBit(sealed, Len(sealed))]]]
    /\ UNCHANGED <<codec, keyVars, parseVars, clientVars, vecVars, envVars, scanVars>>

\* lines 159-198 in task r
TaskFinish(r) ==
    /\ pool.tasks[r].pc = "received"
    /\ pool' = [pool EXCEPT !.tasks[r] = [@ EXCEPT
           !.pc = "done",
           !.opened_with = TaskKey(pool.tasks, r),
           !.result = HandleResponse(pool.tasks[r].response,
                                     TaskKey(pool.tasks, r)).result]]
    /\ UNCHANGED <<codecVars, keyVars, parseVars, clientVars, vecVars, envVars, scanVars>>

PoolNext ==
    \E r \in 1..NumTasks :
        TaskSend(r) \/ TaskTransportErr(r) \/ TaskTransportOk(r) \/ TaskFinish(r)

SpecPool == PoolInit /\ [][PoolNext]_vars


(***************************************************************************)
(* C14. Independent concurrent requests: under every interleaving, what a  *)
(* task sent is its own request sealed under its own secret key, shared    *)
(* secret and nonce, none of which another task has; the key a task keeps  *)
(* and opens its response with is the one of its own attempt; and the      *)
(* outcome of a task that was answered is the one that answer gives alone: *)
(* the parsed inner response when the answer was sealed for this task's    *)
(* request and arrived intact, a decryption error otherwise.               *)
(***************************************************************************)
C14_IndependentRequests ==
    \A r \in 1..NumTasks :
        LET task == pool.tasks[r]
            last == task.attempts[Len(task.attempts)]
        IN  /\ \A i \in DOMAIN task.attempts :
                  LET a == task.attempts[i]
                  IN  /\ SealedPlaintext(a) = InnerRequest(ScanUrl, task.body, <<>>)
                      /\ Slice(a.body, 0, NONCE_SIZE) = a.nonce
                      /\ TagVerifies(Secretbox(a.shared_key), a.nonce,
                                     SliceFrom(a.body, NONCE_SIZE + TAG_SIZE),
                                     Slice(a.body, NONCE_SIZE, NONCE_SIZE + TAG_SIZE))
                      /\ \A q \in (1..NumTasks) \ {r} :
                            \A j \in DOMAIN pool.tasks[q].attempts :
                                LET b == pool.tasks[q].attempts[j]
                                IN  /\ b.local_sk # a.local_sk
                                    /\ b.shared_key # a.shared_key
                                    /\ Secretbox(b.shared_key) # Secretbox(a.shared_key)
                                    /\ b.nonce # a.nonce
            /\ (task.attempts # <<>>) => (task.maybe_sk = Some(last.shared_key))
            /\ task.opened_with.some => (task.opened_with.v = last.shared_key)
            /\ (task.pc = "done" /\ task.reply.for # 0) =>
                  task.result =
                      IF task.reply.for = r /\ task.reply.intact
                      THEN ParseDecrypted(DecryptedBuffer(LinesOf(task.reply.message)), 40)
                      ELSE Err("EncryptionError: Cannot decrypt")

\* two tasks that were both answered: the first with the answer to its own
\* request, the second with the answer to the request of the first
C14_Witness ==
    /\ pool.tasks # <<>>
    /\ pool.tasks[1].pc = "done"
    /\ pool.tasks[1].result.kind = "ok"
    /\ pool.tasks[2].pc = "done"
    /\ pool.tasks[2].reply.for = 1
    /\ pool.tasks[2].result.kind = "err"


(***************************************************************************)
(* The key agreement as the crates compute it, for the reference vectors   *)
(* of encryption.rs.  An element of GF(2^255 - 19) is a sequence of 17     *)
(* limbs of 15 bits, least significant first; a 32-bit word of HChaCha20   *)
(* is a pair <<low 16 bits, high 16 bits>>.  The specifications above use  *)
(* MontgomeryMul and HChaCha, stand-ins with the same interface.           *)
(***************************************************************************)
FeZero == [i \in 1..17 |-> 0]

FeOne == [i \in 1..17 |-> IF i = 1 THEN 1 ELSE 0]

\* 2 * (2^255 - 19), limb by limb
FeTwoP == [i \in 1..17 |-> IF i = 1 THEN 65498 ELSE 65534]

\* 121665 = (486662 - 2) / 4, the constant of the ladder
FeA24 == [i \in 1..17 |-> IF i = 1 THEN 23361 ELSE IF i = 2 THEN 3 ELSE 0]

\* the sum of f[from], ..., f[to]
RECURSIVE SumOver(_, _, _)
SumOver(f, from, to) == IF from > to THEN 0 ELSE f[from] + SumOver(f, from + 1, to)

\* bring every limb of v below 2^15; what runs over the top is folded in
\* with 2^255 = 19
FeCarry(v) ==
    LET RECURSIVE Pass(_, _, _)
        Pass(w, i, c) ==
            IF i > 17 THEN <<c>>
            ELSE <<(w[i] + c) % 32768>> \o Pass(w, i + 1, (w[i] + c) \div 32768)
        p1 == Pass(v, 1, 0)
        p2 == Pass([p1 EXCEPT ![1] = @ + 19 * p1[18]], 1, 0)
    IN  [i \in 1..17 |-> IF i = 1 THEN p2[1] + 19 * p2[18] ELSE p2[i]]

FeAdd(a, b) == FeCarry([i \in 1..17 |-> a[i] + b[i]])

FeSub(a, b) == FeCarry([i \in 1..17 |-> a[i] + FeTwoP[i] - b[i]])

\* the product: every a[i] * b[j] is split into its low and high 15 bits,
\* which are summed at positions i + j and i + j + 1; position k + 17 is
\* folded into position k with the factor 19
FeMul(a, b) ==
    LET prod == [i \in 0..16 |-> [j \in 0..16 |-> a[i + 1] * b[j + 1]]]
        Low(k) == SumOver([i \in 0..16 |->
                      IF k - i \in 0..16 THEN prod[i][k - i] % 32768 ELSE 0], 0, 16)
        High(k) == SumOver([i \in 0..16 |->
                      IF k - i \in 0..16 THEN prod[i][k - i] \div 32768 ELSE 0], 0, 16)
        coef == [k \in 0..33 |-> Low(k) + High(k - 1)]
    IN  FeCarry([i \in 1..17 |-> coef[i - 1] + 19 * coef[i + 16]])

\* FieldElement::from_bytes: the low 255 bits of 32 bytes
FeFromBytes(bytes) == [i \in 1..17 |-> UnitAt(bytes, 8, 15 * (i - 1) + 1, 15)]

\* FieldElement::to_bytes: the canonical representative, as 32 bytes
FeToBytes(a) ==
    LET above == a[1] >= 32749 /\ \A i \in 2..17 : a[i] = 32767
        canon == IF above THEN [FeZero EXCEPT ![1] = a[1] - 32749] ELSE a
    IN  [j \in 1..32 |-> UnitAt(canon, 15, 8 * (j - 1) + 1, 8)]

\* the order of the prime-order subgroup, 2^252 + 27742317777372353535851937790883648493,
\* as 18 limbs of 15 bits
BasepointOrder ==
    <<21485, 14827, 3177, 16531, 19813, 24307, 30632, 28540, 20,
      0, 0, 0, 0, 0, 0, 0, 4096, 0>>

\* Scalar::from_bytes_mod_order: the 256-bit integer reduced modulo the
\* group order, as 18 limbs of 15 bits
ScalarFromBytesModOrder(bytes) ==
    LET RECURSIVE Geq(_, _)
        Geq(a, i) == IF i = 0 THEN TRUE
                     ELSE IF a[i] # BasepointOrder[i] THEN a[i] > BasepointOrder[i]
                     ELSE Geq(a, i - 1)
        RECURSIVE SubFrom(_, _, _)
        SubFrom(a, i, borrow) ==
            IF i > 18 THEN <<>>
            ELSE LET d == a[i] - BasepointOrder[i] - borrow
                 IN  <<(d + 32768) % 32768>> \o SubFrom(a, i + 1, IF d < 0 THEN 1 ELSE 0)
        RECURSIVE Reduce(_)
        Reduce(a) == IF Geq(a, 18) THEN Reduce(SubFrom(a, 1, 0)) ELSE a
    IN  Reduce([i \in 1..18 |-> UnitAt(bytes, 8, 15 * (i - 1) + 1, 15)])

\* one step of the Montgomery ladder of MontgomeryPoint * Scalar, for the
\* scalar bit kt: conditional swap, then differential add-and-double
LadderStep(st, kt) ==
    LET sw == (st.swap + kt) % 2
        x2 == IF sw = 1 THEN st.x3 ELSE st.x2
        z2 == IF sw = 1 THEN st.z3 ELSE st.z2
        x3 == IF sw = 1 THEN st.x2 ELSE st.x3
        z3 == IF sw = 1 THEN st.z2 ELSE st.z3
        A == FeAdd(x2, z2)
        AA == FeMul(A, A)
        B == FeSub(x2, z2)
        BB == FeMul(B, B)
        E == FeSub(AA, BB)
        DA == FeMul(FeSub(x3, z3), A)
        CB == FeMul(FeAdd(x3, z3), B)
        s == FeAdd(DA, CB)
        d == FeSub(DA, CB)
    IN  [st EXCEPT !.x2 = FeMul(AA, BB),
                   !.z2 = FeMul(E, FeAdd(AA, FeMul(FeA24, E))),
                   !.x3 = FeMul(s, s),
                   !.z3 = FeMul(st.x1, FeMul(d, d)),
                   !.swap = kt]

\* bit k (1-based) of 2^255 - 21, the exponent of FieldElement::invert
InvertExponentBit(k) == IF k \in {3, 5} THEN 0 ELSE 1

\* one step of z^(2^255 - 21): square, and multiply when the bit is set
InvertStep(acc, z, k) ==
    LET sq == FeMul(acc, acc)
    IN  IF InvertExponentBit(k) = 1 THEN FeMul(sq, z) ELSE sq

\* "expand 32-byte k"
Sigma == <<101, 120, 112, 97, 110, 100, 32, 51, 50, 45, 98, 121, 116, 101, 32, 107>>

\* the sixteen little-endian words of 64 bytes, each <<low half, high half>>
WordsOf(bytes) ==
    [w \in 0..15 |-> <<bytes[4 * w + 1] + 256 * bytes[4 * w + 2],
                      bytes[4 * w + 3] + 256 * bytes[4 * w + 4]>>]

\* the little-endian bytes of a word
BytesOfWord(w) == <<w[1] % 256, w[1] \div 256, w[2] % 256, w[2] \div 256>>

\* u32::wrapping_add
Add32(a, b) ==
    <<(a[1] + b[1]) % 65536, (a[2] + b[2] + ((a[1] + b[1]) \div 65536)) % 65536>>

Xor32(a, b) == <<XorN(a[1], b[1], 16), XorN(a[2], b[2], 16)>>

\* u32::rotate_left(n) for 0 < n <= 16
Rotl32(a, n) ==
    IF n = 16 THEN <<a[2], a[1]>>
    ELSE <<((a[1] * Pow2(n)) % 65536) + (a[2] \div Pow2(16 - n)),
           ((a[2] * Pow2(n)) % 65536) + (a[1] \div Pow2(16 - n))>>

\* the ChaCha quarter round on the words a, b, c, d of the state
QuarterRound(st, a, b, c, d) ==
    LET a1 == Add32(st[a], st[b])
        d1 == Rotl32(Xor32(st[d], a1), 16)
        c1 == Add32(st[c], d1)
        b1 == Rotl32(Xor32(st[b], c1), 12)
        a2 == Add32(a1, b1)
        d2 == Rotl32(Xor32(d1, a2), 8)
        c2 == Add32(c1, d2)
        b2 == Rotl32(Xor32(b1, c2), 7)
    IN  [st EXCEPT ![a] = a2, ![b] = b2, ![c] = c2, ![d] = d2]

\* a column round and a diagonal round
DoubleRound(st) ==
    LET c1 == QuarterRound(st, 0, 4, 8, 12)
        c2 == QuarterRound(c1, 1, 5, 9, 13)
        c3 == QuarterRound(c2, 2, 6, 10, 14)
        c4 == QuarterRound(c3, 3, 7, 11, 15)
        d1 == QuarterRound(c4, 0, 5, 10, 15)
        d2 == QuarterRound(d1, 1, 6, 11, 12)
        d3 == QuarterRound(d2, 2, 7, 8, 13)
    IN  QuarterRound(d3, 3, 4, 9, 14)

\* hchacha::<U10>: ten double rounds
HChaChaDoubleRounds == 10

\* the output of HChaCha20: words 0..3 and 12..15 of the final state, with
\* no addition of the input
HChaChaOutput(st) ==
    BytesOfWord(st[0]) \o BytesOfWord(st[1]) \o BytesOfWord(st[2]) \o BytesOfWord(st[3])
    \o BytesOfWord(st[12]) \o BytesOfWord(st[13]) \o BytesOfWord(st[14]) \o BytesOfWord(st[15])

(***************************************************************************)
(* The reference-vector harness: test_scalarmult and test_ecdh of          *)
(* encryption.rs, with the arithmetic of the crates carried out one ladder *)
(* step, one inversion step and one double round at a time.                *)
(***************************************************************************)
\* SecretKey::from([0u8; 32]) of the tests, and one generated key
VectorSecretKeys == {[i \in 1..KEY_SIZE |-> 0], SecretKeyBytes(1)}

VecInit ==
    /\ \E sk \in VectorSecretKeys :
         LET x1 == FeFromBytes(Base32Decode(TestKey).data)
         IN  vec = [pc |-> "ladder", sk |-> sk,
                    e |-> ScalarFromBytesModOrder(ClampInteger(sk)),
                    bit |-> 255, swap |-> 0,
                    x1 |-> x1, x2 |-> FeOne, z2 |-> FeZero, x3 |-> x1, z3 |-> FeOne,
                    acc |-> FeOne, point |-> <<>>,
                    rounds |-> 0, state |-> <<>>, nm |-> <<>>]
    /\ macs = {}
    /\ codec = CodecIdle
    /\ keyx = KeyIdle
    /\ parser = ParserIdle
    /\ client = ClientIdle
    /\ pool = PoolIdle
    /\ env = EnvIdle
    /\ scan = ScanIdle

\* e * p, one scalar bit from bit 254 down; after the last bit the pending
\* swap is carried out
VecLadder ==
    /\ vec.pc = "ladder"
    /\ LET st == LadderStep(vec, BitAt(vec.e, 15, vec.bit))
       IN  vec' = IF vec.bit > 1
                  THEN [st EXCEPT !.bit = vec.bit - 1]
                  ELSE [st EXCEPT !.pc = "invert", !.bit = 255,
                                  !.x2 = IF st.swap = 1 THEN st.x3 ELSE st.x2,
                                  !.z2 = IF st.swap = 1 THEN st.z3 ELSE st.z2]
    /\ UNCHANGED <<codecVars, keyVars, parseVars, clientVars, poolVars, envVars, scanVars>>

\* the affine u-coordinate x2 / z2 and its bytes, the Zeroizing<MontgomeryPoint>
\* that rspamd_x25519_scalarmult returns; rspamd_x25519_ecdh starts from it
VecInvert ==
    /\ vec.pc = "invert"
    /\ LET acc == InvertStep(vec.acc, vec.z2, vec.bit)
           point == FeToBytes(FeMul(vec.x2, acc))
       IN  vec' = IF vec.bit > 1
                  THEN [vec EXCEPT !.acc = acc, !.bit = vec.bit - 1]
                  ELSE [vec EXCEPT !.acc = acc, !.bit = 0, !.pc = "hchacha",
                                   !.point = point,
                                   !.rounds = HChaChaDoubleRounds,
                                   !.state = WordsOf(Sigma \o point \o [i \in 1..16 |-> 0])]
    /\ UNCHANGED <<codecVars, keyVars, parseVars, clientVars, poolVars, envVars, scanVars>>

\* hchacha::<U10>(&point.to_bytes().into(), &n0)
VecHChaCha ==
    /\ vec.pc = "hchacha"
    /\ LET st == DoubleRound(vec.state)
       IN  vec' = IF vec.rounds > 1
                  THEN [vec EXCEPT !.state = st, !.rounds = vec.rounds - 1]
                  ELSE [vec EXCEPT !.state = st, !.rounds = 0, !.pc = "done",
                                   !.nm = HChaChaOutput(st)]
    /\ UNCHANGED <<codecVars, keyVars, parseVars, clientVars, poolVars, envVars, scanVars>>

VecNext == VecLadder \/ VecInvert \/ VecHChaCha

SpecVector == VecInit /\ [][VecNext]_vars

EXPECTED_POINT ==
    <<95, 76, 225, 188, 0, 26, 146, 94, 70, 249, 90, 189, 35, 51, 1, 42, 9, 37, 94,
      254, 204, 55, 198, 91, 180, 90, 46, 217, 140, 226, 211, 90>>

EXPECTED_NM ==
    <<61, 109, 220, 195, 100, 174, 127, 237, 148, 122, 154, 61, 165, 83, 93, 105,
      127, 166, 153, 112, 103, 224, 2, 200, 136, 243, 73, 51, 8, 163, 150, 7>>

\* C15: with the secret key of 32 zero bytes and the remote key
\* "k4nz984k36xmcynm1hr9kdbn6jhcxf4ggbrb1quay7f88rpm9kay", the scalar
\* multiplication yields the reference point, and HChaCha20 over that point
\* with a zeroed 16-byte nonce yields the reference shared key, which is the
\* key as it is used, with no further hashing
C15_InteropVector ==
    (vec.pc \in {"hchacha", "done"} /\ vec.sk = [i \in 1..KEY_SIZE |-> 0]) =>
        /\ vec.point = EXPECTED_POINT
        /\ vec.pc = "done" => vec.nm = EXPECTED_NM

\* C15: the reference computation has run to its end
C15_Witness ==
    /\ vec.pc = "done"
    /\ vec.sk = [i \in 1..KEY_SIZE |-> 0]
    /\ vec.point = EXPECTED_POINT
    /\ vec.nm = EXPECTED_NM

\* C16: for every value of config.retries and every sequence of transport
\* failures the loop makes at most max(1, retries) attempts, its counter
\* never goes below zero, a finished request has made at least one attempt,
\* and a request that gave up on a transport failure returns the transport
\* error
C16_BoundedRetry ==
    client.pc # "idle" =>
        /\ Len(client.attempts) <=
               (IF client.config.retries > 1 THEN client.config.retries ELSE 1)
        /\ client.retry_cnt >= 0
        /\ (client.pc = "done" /\ client.failed # "key") => Len(client.attempts) >= 1
        /\ client.failed = "transport" => client.result.kind = "err"

\* C17: whenever an encryption key is configured, the request that is put on
\* the wire (the latest attempt, while it is executed) is a POST whose only header is Key (the key id and the ephemeral
\* public key) and whose body is nonce, tag and ciphertext; the Password,
\* the envelope headers, the compression headers and the message body are
\* in the sealed plaintext and not on the outer request
C17_NoCleartextOnWire ==
    (client.pc = "executing" /\ client.config.encryption_key.some) =>
            LET a == client.attempts[Len(client.attempts)]
                ct == SliceFrom(a.body, NONCE_SIZE + TAG_SIZE)
                plaintext == InnerRequest(ScanUrl, a.inner_body, a.inner_headers)
            IN  /\ a.encrypted
                /\ a.method = "POST"
                /\ Len(a.headers) = 1
                /\ a.headers[1] =
                     Header(KeyStr, MakeKeyHeader(client.config.encryption_key.v,
                                                  PeerKey(a.local_sk)).data)
                /\ \A j \in DOMAIN a.inner_headers :
                      \A h \in DOMAIN a.headers :
                          /\ a.headers[h].name # a.inner_headers[j].name
                          /\ a.headers[h].value # a.inner_headers[j].value
                /\ Slice(a.body, 0, NONCE_SIZE) = a.nonce
                /\ Len(ct) = Len(plaintext)
                /\ ct # plaintext
                /\ SealedPlaintext(a) = plaintext

\* C17: a wrapped request that carries a password, an envelope header, the
\* compression headers and a message body is on the wire
C17_Witness ==
    /\ client.pc = "executing"
    /\ client.config.encryption_key.some
    /\ client.config.password.some
    /\ client.config.zstd
    /\ client.envelope_data.from.some
    /\ client.attempts # <<>>
    /\ LET a == client.attempts[Len(client.attempts)]
       IN  /\ a.encrypted
           /\ Len(a.inner_headers) = 4
           /\ a.inner_body # <<>>
           /\ Len(a.headers) = 1

\* C18: for every response shorter than the 40 bytes of nonce and tag, the
\* empty one included, decrypt returns an error value to its caller: it does
\* not panic and it returns no plaintext
C18_ShortResponsesRejected ==
    codec.pc = "short" =>
        /\ Len(codec.body) < NONCE_SIZE + TAG_SIZE
        /\ codec.out.kind = "err"
        /\ codec.out.data = <<>>

(***************************************************************************)
(* The envelope harness: an EnvelopeData is turned into the HashMap        *)
(* extra_hdrs (EnvelopeData::into_iter, HashMap::from_iter) and every      *)
(* entry of the map is added to the request.  A HashMap is the set of its  *)
(* entries [k, v], one per key; the headers of the request are a bag.      *)
(***************************************************************************)
\* "IP"
IpStr == <<73, 80>>

\* "User"
UserStr == <<85, 115, 101, 114>>

\* "Helo"
HeloStr == <<72, 101, 108, 111>>

\* "Hostname"
HostnameStr == <<72, 111, 115, 116, 110, 97, 109, 101>>

\* "Rcpt"
RcptStr == <<82, 99, 112, 116>>

\* HashMap::insert: the entry of the key is replaced
HashMapInsert(map, k, v) == {e \in map : e.k # k} \cup {[k |-> k, v |-> v]}

\* for rcpt in self.rcpt { self.additional_headers.insert("Rcpt", rcpt) }
RECURSIVE InsertRcpts(_, _)
InsertRcpts(map, rcpt) ==
    IF rcpt = <<>> THEN map
    ELSE InsertRcpts(HashMapInsert(map, RcptStr, Head(rcpt)), Tail(rcpt))

\* the fields of EnvelopeData that are an Option<String>, in the order of
\* into_iter, with the header each one is inserted as
EnvelopeOptions(d) ==
    <<[k |-> FromStr, o |-> d.from], [k |-> IpStr, o |-> d.ip],
      [k |-> UserStr, o |-> d.user], [k |-> HeloStr, o |-> d.helo],
      [k |-> HostnameStr, o |-> d.hostname], [k |-> FileStr, o |-> d.file_path]>>

\* EnvelopeData::into_iter
EnvelopeIntoIter(d) ==
    LET opts == EnvelopeOptions(d)
        RECURSIVE InsertOptions(_, _)
        InsertOptions(map, i) ==
            IF i > Len(opts) THEN map
            ELSE InsertOptions(IF opts[i].o.some
                               THEN HashMapInsert(map, opts[i].k, opts[i].o.v)
                               ELSE map, i + 1)
    IN  InsertRcpts(InsertOptions(d.additional_headers, 1), d.rcpt)

\* for (k, v) in extra_hdrs.iter() { req = req.header(k, v) }
RECURSIVE AddHeaders(_)
AddHeaders(map) ==
    IF map = {} THEN EmptyBag
    ELSE LET e == CHOOSE x \in map : TRUE
         IN  SetToBag({Header(e.k, e.v)}) (+) AddHeaders(map \ {e})

\* "a@b", "c@d"
RcptValues == {<<97, 64, 98>>, <<99, 64, 100>>}

\* the maps additional_headers is drawn from: empty, {"X-T": "1"}, and
\* {"X-T": "1", "From": "x@y"}
AdditionalHeaders ==
    {{}, {[k |-> <<88, 45, 84>>, v |-> <<49>>]},
     {[k |-> <<88, 45, 84>>, v |-> <<49>>], [k |-> FromStr, v |-> <<120, 64, 121>>]}}

EnvInit ==
    /\ \E from \in Options(FromValues), ip \in Options({<<49>>}),
          user \in Options({<<117>>}), helo \in Options({<<104>>}),
          hostname \in Options({<<110>>}), file_path \in Options(FilePaths),
          rcpt \in SeqsUpTo(RcptValues, MaxRcpt),
          additional_headers \in AdditionalHeaders :
          env = [pc |-> "built",
                 envelope_data |-> [from |-> from, rcpt |-> rcpt, ip |-> ip,
                                    user |-> user, helo |-> helo,
                                    hostname |-> hostname, file_path |-> file_path,
                                    additional_headers |-> additional_headers],
                 extra_hdrs |-> {}, headers |-> EmptyBag]
    /\ macs = {}
    /\ codec = CodecIdle
    /\ keyx = KeyIdle
    /\ parser = ParserIdle
    /\ client = ClientIdle
    /\ pool = PoolIdle
    /\ vec = VecIdle
    /\ scan = ScanIdle

\* async_client.rs lines 72-73, sync_client.rs line 59
EnvCollect ==
    /\ env.pc = "built"
    /\ env' = [env EXCEPT !.pc = "collected",
                          !.extra_hdrs = EnvelopeIntoIter(env.envelope_data)]
    /\ UNCHANGED <<codecVars, keyVars, parseVars, clientVars, poolVars, vecVars, scanVars>>

\* async_client.rs lines 99-101, sync_client.rs lines 90-92
EnvAddHeaders ==
    /\ env.pc = "collected"
    /\ env' = [env EXCEPT !.pc = "added", !.headers = AddHeaders(env.extra_hdrs)]
    /\ UNCHANGED <<codecVars, keyVars, parseVars, clientVars, poolVars, vecVars, scanVars>>

EnvNext == EnvCollect \/ EnvAddHeaders

SpecEnvelope == EnvInit /\ [][EnvNext]_vars

\* C19: the headers of the request carry one header for every set field of
\* the EnvelopeData, one Rcpt header for every address of the rcpt list
\* (k recipients, k Rcpt headers), and every entry of additional_headers
\* unchanged
C19_EnvelopeComplete ==
    env.pc = "added" =>
        LET d == env.envelope_data
            opts == EnvelopeOptions(d)
            Count(k, v) == CopiesIn(Header(k, v), env.headers)
            Named(k) == {h \in BagToSet(env.headers) : h.name = HeaderNameFromStr(k)}
            RECURSIVE Total(_)
            Total(hs) == IF hs = {} THEN 0
                         ELSE LET h == CHOOSE x \in hs : TRUE
                              IN  CopiesIn(h, env.headers) + Total(hs \ {h})
        IN  /\ \A i \in DOMAIN opts : opts[i].o.some => Count(opts[i].k, opts[i].o.v) >= 1
            /\ Total(Named(RcptStr)) = Len(d.rcpt)
            /\ \A i \in DOMAIN d.rcpt :
                  Count(RcptStr, d.rcpt[i]) =
                      Cardinality({j \in DOMAIN d.rcpt : d.rcpt[j] = d.rcpt[i]})
            /\ \A e \in d.additional_headers : Count(e.k, e.v) >= 1

(***************************************************************************)
(* The scan harness: scan_sync and scan_async are called with the same     *)
(* Config, message and EnvelopeData, and the server gives both the same    *)
(* reply.  A reply is the header lines and the body units of the response  *)
(* (of the inner response, when the request was encrypted).                *)
(***************************************************************************)
\* a complete JSON document of a scan reply
JsonDoc == BodyByte(<<"json", 0>>)

MessageOffsetName == <<"message-offset", 0>>

\* serde_json::from_slice::<RspamdScanReply>
SerdeJsonFromSlice(bytes) ==
    IF bytes = <<JsonDoc>> THEN Ok([reply |-> bytes, rewritten_body |-> None])
    ELSE Err("SerdeError")

\* to_str()?.parse::<usize>()
ParseUsize(value) ==
    IF value[1] = "usize" THEN Ok(value[2])
    ELSE Err("HttpError: Invalid Message-Offset value")

\* .map_err(|e| RspamdError::HttpError(e.to_string()))
MapHttpErr(r) == IF r.kind = "err" THEN Err("HttpError") ELSE r

\* the headers of the request in the order sync_client.rs sets them: the
\* extra headers, then Password, then Content-Encoding and Compression
SyncRequestHeaders(config, need_body, extra_order) ==
    [i \in 1..Len(extra_order) |-> Header(extra_order[i].k, extra_order[i].v)]
    \o (IF config.password.some
        THEN <<Header(PasswordStr, config.password.v)>> ELSE <<>>)
    \o (IF config.zstd /\ need_body
        THEN <<Header(ContentEncodingStr, ZstdStr), Header(CompressionStr, ZstdStr)>>
        ELSE <<>>)

\* the request a client builds before it is wrapped or sent: the method,
\* the headers as a bag (their order left aside), the body
BuiltRequest(need_body, headers, body) ==
    LET RECURSIVE BagOf(_)
        BagOf(hs) == IF hs = <<>> THEN EmptyBag
                     ELSE SetToBag({Head(hs)}) (+) BagOf(Tail(hs))
    IN  [method |-> Method(need_body), headers |-> BagOf(headers), body |-> body]

\* the response as the transport delivers it: in encrypted mode the opened
\* inner message, in plaintext mode the headers and the body
ReplyMessage(reply) == <<StatusLine>> \o reply.header_lines \o <<BlankLine>> \o reply.body

\* async_client.rs lines 166-198
AsyncResponseTail(encrypted, reply) ==
    IF encrypted
    THEN ParseDecrypted(DecryptedBuffer(ReplyMessage(reply)), DecryptedOffset)
    ELSE Ok([headers |-> InsertAll(reply.header_lines), body |-> reply.body])

\* sync_client.rs lines 149-177
SyncResponseTail(encrypted, reply) ==
    IF encrypted
    THEN ParseDecrypted(DecryptedBuffer(ReplyMessage(reply)), DecryptedOffset)
    ELSE LET headers == InsertAll(reply.header_lines)
             zstd == /\ CompressionName \in DOMAIN headers
                     /\ headers[CompressionName] = ZstdValue
             inflated == ZstdDecodeAll(reply.body)
         IN  IF ~zstd THEN Ok([headers |-> headers, body |-> reply.body])
             ELSE IF inflated.kind = "err" THEN inflated
             ELSE Ok([headers |-> headers, body |-> inflated.data])

\* scan_async after request.response()
ScanAsyncReply(response) ==
    LET r == MapHttpErr(response)
    IN  IF r.kind # "ok" THEN r
        ELSE IF MessageOffsetName \notin DOMAIN r.data.headers
        THEN SerdeJsonFromSlice(r.data.body)
        ELSE LET offset == ParseUsize(r.data.headers[MessageOffsetName])
                 body == r.data.body
             IN  IF offset.kind = "err" THEN offset
                 ELSE IF offset.data < Len(body)
                 THEN LET parsed == SerdeJsonFromSlice(Slice(body, 0, offset.data))
                      IN  IF parsed.kind # "ok" THEN parsed
                          ELSE Ok([parsed.data EXCEPT
                                     !.rewritten_body = Some(SliceFrom(body, offset.data))])
                 ELSE SerdeJsonFromSlice(body)

\* scan_sync after request.response()
ScanSyncReply(response) ==
    LET r == MapHttpErr(response)
    IN  IF r.kind # "ok" THEN r ELSE SerdeJsonFromSlice(r.data.body)

\* the header lines of a reply: Compression or not, Message-Offset or not,
\* with an offset inside the body, past its end, or not a number
ReplyHeaderLines ==
    {c \o o : c \in {<<>>, <<HeaderLine(CompressionName, ZstdValue)>>},
              o \in {<<>>} \cup {<<HeaderLine(MessageOffsetName, v)>> :
                         v \in {<<"usize", 1>>, <<"usize", MaxReply + 1>>, <<"x", 0>>}}}

ScanInit ==
    /\ \E encrypted \in BOOLEAN, zstd \in BOOLEAN,
          password \in Options(PasswordValues),
          file_path \in Options(FilePaths),
          header_lines \in ReplyHeaderLines,
          body \in SeqsUpTo({JsonDoc, ZstdMagic, BodyByte(<<"b", 1>>)}, MaxReply) :
          scan = [pc |-> "called", encrypted |-> encrypted,
                  config |-> [zstd |-> zstd, password |-> password],
                  envelope_data |-> [from |-> Some(<<97, 64, 98>>), file_path |-> file_path],
                  body |-> <<104, 105>>,
                  reply |-> [header_lines |-> header_lines, body |-> body],
                  sync |-> [done |-> FALSE], async |-> [done |-> FALSE]]
    /\ macs = {}
    /\ codec = CodecIdle
    /\ keyx = KeyIdle
    /\ parser = ParserIdle
    /\ client = ClientIdle
    /\ pool = PoolIdle
    /\ vec = VecIdle
    /\ env = EnvIdle

\* scan_sync
ScanSync ==
    /\ scan.pc = "called"
    /\ ~scan.sync.done
    /\ LET extra == ExtraHdrs(scan.envelope_data)
           need_body == NeedBody(extra)
       IN  \E order \in IterOrders(extra) :
             scan' = [scan EXCEPT !.sync =
                 [done |-> TRUE,
                  request |-> BuiltRequest(need_body,
                                  SyncRequestHeaders(scan.config, need_body, order),
                                  RequestBody(scan.config, need_body, scan.body)),
                  outcome |-> ScanSyncReply(SyncResponseTail(scan.encrypted, scan.reply))]]
    /\ UNCHANGED <<codecVars, keyVars, parseVars, clientVars, poolVars, vecVars, envVars>>

\* scan_async
ScanAsync ==
    /\ scan.pc = "called"
    /\ ~scan.async.done
    /\ LET extra == ExtraHdrs(scan.envelope_data)
           need_body == NeedBody(extra)
       IN  \E order \in IterOrders(extra) :
             scan' = [scan EXCEPT !.async =
                 [done |-> TRUE,
                  request |-> BuiltRequest(need_body,
                                  RequestHeaders(scan.config, need_body, order),
                                  RequestBody(scan.config, need_body, scan.body)),
                  outcome |-> ScanAsyncReply(AsyncResponseTail(scan.encrypted, scan.reply))]]
    /\ UNCHANGED <<codecVars, keyVars, parseVars, clientVars, poolVars, vecVars, envVars>>

ScanNext == ScanSync \/ ScanAsync

SpecScan == ScanInit /\ [][ScanNext]_vars

\* C20: for the same configuration, message, envelope data and server reply,
\* scan_sync and scan_async build the same request (method, headers, body)
\* and return the same outcome: the same scan reply or the same kind of
\* error, in encrypted and in plaintext mode, replies with a Compression:
\* zstd header or a Message-Offset header included
C20_SyncAsyncEquivalent ==
    (scan.pc = "called" /\ scan.sync.done /\ scan.async.done) =>
        /\ scan.sync.request = scan.async.request
        /\ scan.sync.outcome.kind = scan.async.outcome.kind
        /\ scan.sync.outcome.data = scan.async.outcome.data

====
